---------------------------- MODULE Spec2Model ----------------------------
(***************************************************************************)
(* Model of the dials refinement engine: the Journal history table and the *)
(* Refinery run() state machines (Gauss-Newton, Levenberg-Marquardt and    *)
(* the L-BFGS adaptor) of algorithms/refinement/engine.py, together with   *)
(* the parts of Target and PredictionParameterisation they drive.          *)
(***************************************************************************)
EXTENDS Integers, Sequences, FiniteSets, TLC

VARIABLES
  history,                 \* Journal: [cols: column name -> list of cells, nrows]
  reason_for_termination,  \* Journal.reason_for_termination: list of text pieces, <<>> is None
  jcall,                   \* the Journal method called last and its arguments
  engine,                  \* the Refinery class: "GN", "LM" or "LBFGS"
  max_iterations,          \* Refinery._max_iterations
  nparam,                  \* len(prediction_parameterisation): free parameters
  step_threshold,          \* whether a step_threshold was adopted (default None)
  pc,                      \* position of run()
  x,                       \* Refinery.x, the parameter vector
  old_x,                   \* Refinery.old_x: None or the vector before the last step
  param_vals,              \* vector last given to PredictionParameterisation.set_param_vals
  esds,                    \* whether the free parameters hold esds
  target,                  \* Target after predict(): matches, objective, rmsds at param_vals
  old_target,              \* what predict() yields at old_x
  f_,                      \* Refinery._f: None or <<value>>
  n_iterations,            \* n_iterations of the lstbx engines
  mu,                      \* Levenberg-Marquardt damping value
  nu,                      \* Levenberg-Marquardt trial counter
  rho,                     \* gain ratio of the last trial step (None before any)
  small_step,              \* result of had_too_small_a_step() for the solved step
  nfun,                    \* function evaluations requested by the L-BFGS minimizer
  models,                  \* the ModelParameterisation objects
  pp,                      \* the PredictionParameterisation: None or block lists and _length
  pcall,                   \* the parameterisation method called last, its argument and whether it returned
  reflections,             \* the reflection table handed to get_gradients / _predict_core
  gradients,               \* what get_gradients returned or raised
  matches                  \* Target._matches: None or the cached matched rows

journal_vars == <<history, reason_for_termination, jcall>>

param_vars == <<models, pp, pcall>>

predict_vars == <<reflections, gradients, matches>>

\* what the refinery holds beside x
engine_vars == <<engine, max_iterations, nparam, step_threshold, pc, old_x,
                 param_vals, esds, target, old_target, f_, n_iterations, mu,
                 nu, rho, small_step, nfun>>

run_vars == <<engine_vars, x, param_vars, predict_vars>>

vars == <<journal_vars, run_vars>>

---------------------------------------------------------------------------
(* Python values.  A cell of the table is None or a value; the value v is  *)
(* written <<v>> and None is written <<>>.                                 *)

None == <<>>

Some(v) == <<v>>

\* no parameterisation object is looked at: the engine and the Journal are
\* modelled with the parameterisation reduced to nparam, param_vals and esds
NoParameterisation ==
  /\ models = <<>>
  /\ pp = None
  /\ pcall = [op |-> "none", arg |-> <<>>, ok |-> TRUE]
  /\ reflections = <<>>
  /\ gradients = None
  /\ matches = None

---------------------------------------------------------------------------
(* Bounds of the Journal exploration.                                      *)

MaxRows == 3

MaxCellValue == 2

JournalKeys == {"objective", "rmsd"}

CellValues == 1..MaxCellValue

---------------------------------------------------------------------------
(* class Journal(dict)                                                     *)

\* a list of n None entries: [None] * n
NoneList(n) == [i \in 1..n |-> None]

\* Journal(): an empty dict, _nrows = 0
EmptyJournal == [cols |-> <<>>, nrows |-> 0]

get_nrows(j) == j.nrows

has_key(j, key) == key \in DOMAIN j.cols

\* self[key] = [None] * self._nrows  (replaces the column when key exists)
add_column(j, key) ==
  [j EXCEPT !.cols = (key :> NoneList(j.nrows)) @@ j.cols]

\* the asserts of add_row / del_last_row: every column has _nrows entries
ColumnsAsserted(j) == \A k \in DOMAIN j.cols : Len(j.cols[k]) = j.nrows

add_row_missing_increment(j) ==
  [j EXCEPT !.cols = [k \in DOMAIN j.cols |-> Append(j.cols[k], None)]]

\* append None to every column, then _nrows += 1
add_row(j) ==
  [cols  |-> [k \in DOMAIN j.cols |-> Append(j.cols[k], None)],
   nrows |-> j.nrows + 1]

\* nothing at zero rows; otherwise pop every column, then _nrows -= 1
del_last_row(j) ==
  IF j.nrows = 0 THEN j
  ELSE [cols  |-> [k \in DOMAIN j.cols |->
                     SubSeq(j.cols[k], 1, Len(j.cols[k]) - 1)],
        nrows |-> j.nrows - 1]

\* self[key][-1] = value raises (KeyError, AssertionError, IndexError)
\* exactly when this is false; nothing is written then
set_last_cell_ok(j, key) ==
  /\ key \in DOMAIN j.cols
  /\ Len(j.cols[key]) = j.nrows
  /\ j.nrows > 0

\* (s ranges over {j} so that a nested journal expression is evaluated once)
set_last_cell(j, key, value) ==
  CHOOSE r \in { IF set_last_cell_ok(s, key)
                 THEN [s EXCEPT !.cols[key][Len(s.cols[key])] = Some(value)]
                 ELSE s : s \in {j} } : TRUE

---------------------------------------------------------------------------
(* Termination reason strings.                                             *)

TARGET_ACHIEVED == "RMSD target achieved"

RMSD_CONVERGED == "RMSD no longer decreasing"

STEP_TOO_SMALL == "Step too small"

OBJECTIVE_INCREASE == "Refinement failure: objective increased"

MAX_ITERATIONS == "Reached maximum number of iterations"

MAX_TRIAL_ITERATIONS == "Reached maximum number of consecutive unsuccessful trial steps"

DOF_TOO_LOW == "Not enough degrees of freedom to refine"

SET_BACK == ". Parameters set back one step"

LBFGS_STOP == "lbfgs minimizer stop: "

LBFGS_ERROR == "minimizer.error"

---------------------------------------------------------------------------
(* Bounds of the refinement runs.                                          *)

MaxObjective == 1

MaxIterations == 13

MaxCalls == 2

\* numbers of matched reflections predict() may leave
MatchCounts == {1, 2}

\* numbers of free parameters
ParamCounts == {1, 3}

\* the cap on nu in LevenbergMarquardtIterations.run
NU_CAP == 8192

\* residuals per matched reflection (X, Y and Phi)
RESIDUALS_PER_MATCH == 3

---------------------------------------------------------------------------
(* Target.  What predict() leaves in the Target for one parameter vector:  *)
(* the number of matches, the objective 0.5*sum(w*r^2) over them and the   *)
(* three RMSDs.  RMSDs are in units of 1e-4 of the larger test value, so   *)
(* that the relative changes met are just below, at and above 1e-4.        *)

Cutoffs == <<5000, 5000, 5000>>

RmsdValues == { <<1, 1, 1>>,
                <<10000, 10000, 10000>>,
                <<10001, 10000, 10000>> }

\* no matches: no residuals, objective 0, _rmsds_core divides by n = 0
NoMatches == [nref |-> 0, objective |-> 0, rmsd |-> <<0, 0, 0>>]

Predictions ==
  {NoMatches} \cup
  [nref : MatchCounts, objective : 0..MaxObjective, rmsd : RmsdValues]

get_num_matches(t) == t.nref

\* _rmsds_core raises ZeroDivisionError when there are no matches
rmsds_raises(t) == t.nref = 0

rmsds(t) == t.rmsd

\* LeastSquaresPositionalResidualWithRmsdCutoff.achieved
achieved(t) == \A i \in 1..3 : rmsds(t)[i] < Cutoffs[i]

\* non_linear_ls.objective() after build_up
objective(t) == t.objective

\* the functional of compute_functional_and_gradients: the sentinel 1e12,
\* a value above every objective, when there are no matches
LARGE_FUNCTIONAL == MaxObjective + 1

functional(t) == IF t.nref = 0 THEN LARGE_FUNCTIONAL ELSE t.objective

dof_one_equation_per_match(t, np) == t.nref - np

\* non_linear_ls.dof: equations accumulated by build_up minus parameters
dof(t, np) == RESIDUALS_PER_MATCH * t.nref - np

---------------------------------------------------------------------------
(* Exact arithmetic for the damping value.  rho is the fraction <<a, b>>,  *)
(* b > 0.  mu is <<n, d, e>> = (n / d) * 2^e with n and d odd, so that the *)
(* products of mu with nu = 2, 4, ... stay small.                          *)

RECURSIVE Pow2(_)
Pow2(k) == IF k = 0 THEN 1 ELSE 2 * Pow2(k - 1)

RECURSIVE Log2(_)
Log2(n) == IF n <= 1 THEN 0 ELSE 1 + Log2(n \div 2)

RECURSIVE Gcd(_, _)
Gcd(a, b) == IF b = 0 THEN a ELSE Gcd(b, a % b)

RECURSIVE OddPart(_)
OddPart(n) == IF n % 2 = 0 THEN OddPart(n \div 2) ELSE n

RECURSIVE TwoPart(_)
TwoPart(n) == IF n % 2 = 0 THEN 1 + TwoPart(n \div 2) ELSE 0

\* (n / d) * 2^e in normal form, n > 0, d > 0
MuNorm(n, d, e) ==
  LET g == Gcd(n, d)
      n1 == n \div g
      d1 == d \div g
  IN  <<OddPart(n1), OddPart(d1), e + TwoPart(n1) - TwoPart(d1)>>

\* m * (a / b), a > 0, b > 0
MuTimes(m, a, b) == MuNorm(m[1] * a, m[2] * b, m[3])

\* m1 < m2
MuLess(m1, m2) ==
  LET e == IF m1[3] < m2[3] THEN m1[3] ELSE m2[3]
  IN  m1[1] * Pow2(m1[3] - e) * m2[2] < m2[1] * Pow2(m2[3] - e) * m1[2]

Cube(k) == k * k * k

ShrinkAlways(r) == <<1, 3>>

\* max(1/3, 1 - (2*rho - 1)**3) as a fraction <<a, b>>
ShrinkFactor(r) ==
  LET a == Cube(r[2]) - Cube(2 * r[1] - r[2])
      b == Cube(r[2])
  IN  IF 3 * a < b THEN <<1, 3>> ELSE <<a, b>>

Positive(r) == r[1] > 0

---------------------------------------------------------------------------
(* Refinery                                                                *)

InitColumns == {"num_reflections", "objective", "gradient_norm",
                "solution_norm", "parameter_vector",
                "parameter_vector_norm", "rmsd"}

RECURSIVE add_columns(_, _)
add_columns(j, keys) ==
  IF keys = {} THEN j
  ELSE LET k == CHOOSE k \in keys : TRUE
       IN  add_columns(add_column(j, k), keys \ {k})

\* Refinery.__init__: the Journal and its columns; the lstbx engines add
\* reduced_chi_squared in GaussNewtonIterations.__init__
NewHistory(eng) ==
  add_columns(EmptyJournal,
              IF eng = "LBFGS" THEN InitColumns
              ELSE InitColumns \cup {"reduced_chi_squared"})

get_num_steps(j) == get_nrows(j) - 1

\* update_journal up to the call of rmsds(), which may raise
journal_row_begun(j, t) ==
  set_last_cell(add_row(j), "num_reflections", get_num_matches(t))

update_journal_objective_before_row(j, t, pv, f) ==
  LET j0 == set_last_cell(j, "objective", f)
      j1 == journal_row_begun(j0, t)
      j2 == set_last_cell(j1, "rmsd", rmsds(t))
  IN  set_last_cell(j2, "parameter_vector", pv)

\* update_journal: a new row for the Target t, the parameterisation's
\* values pv and the functional f
update_journal(j, t, pv, f) ==
  LET j1 == journal_row_begun(j, t)
      j2 == set_last_cell(j1, "rmsd", rmsds(t))
      j3 == set_last_cell(j2, "parameter_vector", pv)
  IN  set_last_cell(j3, "objective", f)

\* the cells both lstbx engines add after solve()
journal_lstbx_cells(j) ==
  LET j1 == set_last_cell(j, "parameter_vector_norm", "pvn")
      j2 == set_last_cell(j1, "gradient_norm", "gn")
      j3 == set_last_cell(j2, "solution_norm", "step norm")
  IN  set_last_cell(j3, "reduced_chi_squared", "chi_sq")

Column(j, key) == j.cols[key]

RmsdTestRelativeToLast(e0, e1) ==
  IF e1 > 0
  THEN (IF e1 >= e0 THEN e1 - e0 ELSE e0 - e1) * 10000 < e0
  ELSE TRUE

\* abs((e[1] - e[0])/e[1]) < 0.0001 if e[1] > 0 else True
RmsdTest(e0, e1) ==
  IF e1 > 0
  THEN (IF e1 >= e0 THEN e1 - e0 ELSE e0 - e1) * 10000 < e1
  ELSE TRUE

test_rmsd_convergence(j) ==
  LET col == Column(j, "rmsd")
      n == Len(col)
  IN  IF n < 2 THEN FALSE
      ELSE \A i \in 1..3 : RmsdTest(col[n][1][i], col[n - 1][1][i])

test_objective_increasing(j) ==
  LET l == Column(j, "objective")
      n == Len(l)
  IN  IF n < 2 THEN FALSE ELSE l[n][1] > l[n - 1][1]

test_objective_increasing_but_not_nref(j) ==
  LET l == Column(j, "objective")
      m == Column(j, "num_reflections")
      n == Len(l)
  IN  IF n < 2 THEN FALSE
      ELSE l[n][1] > l[n - 1][1] /\ m[n][1] <= m[n - 1][1]

\* x += step(): the vector tried by the (n+1)-th forward step.  Vectors
\* are told apart by the serial number of the step that produced them;
\* 0 is the starting vector.
step_forward_x(n) == n + 1

MaxIterationsExceeded(n, maxit) == n = maxit + 1

MaxIterationsReached(n, maxit) == n = maxit

---------------------------------------------------------------------------
(* The refinement runs.  pc: "constructed" (after __init__), "loop" (top   *)
(* of the while loop of an lstbx engine), "tests" (row journaled),         *)
(* "finalise" (loop left), "solver" (inside lbfgs.run), "stopping" (the    *)
(* callback returned True), "returned", "raised" (run() left by an         *)
(* exception).                                                             *)

Engines == {"GN", "LM", "LBFGS"}

Lstbx == {"GN", "LM"}

MaxIterationsChoices == {0, 2, MaxIterations}

\* tau * max(diag(normal matrix)): the unit in which mu is counted
MuStart == <<1, 1, 0>>

\* values of expected_decrease = 0.5*h.dot(mu*h - g).  With h the solution
\* of the damped normal equations (A + mu) h = -g this is
\* 0.5*(h.A.h + 2*mu*h.h) > 0
ExpectedDecreases == {1, 4}

Init ==
  /\ engine \in Engines
  /\ max_iterations \in (IF engine \in Lstbx THEN MaxIterationsChoices ELSE {MaxIterations})
  /\ nparam \in ParamCounts
  /\ step_threshold \in (IF engine \in Lstbx THEN BOOLEAN ELSE {FALSE})
  /\ history = NewHistory(engine)
  /\ reason_for_termination = None
  /\ jcall = [op |-> "new", key |-> "", value |-> 0]
  /\ pc = "constructed"
  /\ x = 0
  /\ old_x = None
  /\ param_vals = 0
  /\ esds = FALSE
  /\ target \in Predictions
  /\ old_target = target
  /\ f_ = None
  /\ n_iterations = 0
  /\ mu = None
  /\ nu = 0
  /\ rho = None
  /\ small_step = FALSE
  /\ nfun = 0
  /\ NoParameterisation

config_vars == <<engine, max_iterations, nparam, step_threshold, jcall,
                 param_vars, predict_vars>>

\* GaussNewtonIterations.run / LevenbergMarquardtIterations.run up to the
\* while loop: the first build_up and the degrees-of-freedom test
RunStart ==
  /\ pc = "constructed"
  /\ engine \in Lstbx
  /\ history' = (IF engine = "LM"
                 THEN add_column(add_column(history, "mu"), "nu")
                 ELSE history)
  /\ n_iterations' = 0
  /\ nu' = (IF engine = "LM" THEN 2 ELSE nu)
  /\ param_vals' = x
  /\ esds' = FALSE
  /\ IF dof(target, nparam) < 1
     THEN /\ reason_for_termination' = <<DOF_TOO_LOW>>
          /\ pc' = "returned"
          /\ mu' = mu
     ELSE /\ reason_for_termination' = reason_for_termination
          /\ pc' = "loop"
          /\ mu' = (IF engine = "LM" THEN MuStart ELSE mu)
  /\ UNCHANGED <<config_vars, x, old_x, target, old_target, f_, rho,
                 small_step, nfun>>

\* top of the loop: _f = objective(), solve(), update_journal() and the
\* cells added after it
Solve ==
  /\ pc = "loop"
  /\ f_' = Some(objective(target))
  /\ IF rmsds_raises(target)
     THEN /\ history' = journal_row_begun(history, target)
          /\ pc' = "raised"
          /\ small_step' = small_step
     ELSE /\ LET j1 == update_journal(history, target, param_vals, objective(target))
                 j2 == journal_lstbx_cells(j1)
             IN  history' = (IF engine = "LM"
                             THEN set_last_cell(set_last_cell(j2, "mu", mu), "nu", nu)
                             ELSE j2)
          /\ pc' = "tests"
          /\ small_step' \in (IF step_threshold THEN BOOLEAN ELSE {FALSE})
  /\ UNCHANGED <<config_vars, reason_for_termination, x, old_x, param_vals,
                 esds, target, old_target, n_iterations, mu, nu, rho, nfun>>

Continue == "continue"

\* the termination tests of GaussNewtonIterations.run, in their order
GNTermination(j, t, small, n, maxit) ==
  IF achieved(t) THEN TARGET_ACHIEVED
  ELSE IF test_rmsd_convergence(j) THEN RMSD_CONVERGED
  ELSE IF small THEN STEP_TOO_SMALL
  ELSE IF test_objective_increasing_but_not_nref(j) THEN OBJECTIVE_INCREASE
  ELSE IF MaxIterationsReached(n, maxit) THEN MAX_ITERATIONS
  ELSE Continue

\* the termination tests of LevenbergMarquardtIterations.run, in their order
LMTermination(j, t, small, n, maxit) ==
  IF small THEN STEP_TOO_SMALL
  ELSE IF achieved(t) THEN TARGET_ACHIEVED
  ELSE IF test_rmsd_convergence(j) THEN RMSD_CONVERGED
  ELSE IF MaxIterationsReached(n, maxit) THEN MAX_ITERATIONS
  ELSE Continue

\* a Gauss-Newton break; on OBJECTIVE_INCREASE step_backward() and
\* prepare_for_step()
GNBreak ==
  /\ pc = "tests"
  /\ engine = "GN"
  /\ LET r == GNTermination(history, target, small_step, n_iterations, max_iterations)
     IN  /\ r # Continue
         /\ IF r = OBJECTIVE_INCREASE
            THEN /\ IF old_x = None
                    THEN /\ reason_for_termination' = <<r>>
                         /\ UNCHANGED <<x, old_x, target>>
                    ELSE /\ reason_for_termination' = <<r, SET_BACK>>
                         /\ x' = old_x[1]
                         /\ old_x' = None
                         /\ target' = old_target
                 /\ param_vals' = x'
                 /\ esds' = FALSE
            ELSE /\ reason_for_termination' = <<r>>
                 /\ UNCHANGED <<x, old_x, target, param_vals, esds>>
  /\ pc' = "finalise"
  /\ UNCHANGED <<config_vars, history, old_target, f_, n_iterations, mu, nu,
                 rho, small_step, nfun>>

\* step_forward(), n_iterations += 1, build_up(); trial is what predict()
\* yields at the new vector
GNStepForward(trial) ==
  /\ pc = "tests"
  /\ engine = "GN"
  /\ GNTermination(history, target, small_step, n_iterations, max_iterations) = Continue
  /\ old_x' = Some(x)
  /\ old_target' = target
  /\ x' = step_forward_x(n_iterations)
  /\ n_iterations' = n_iterations + 1
  /\ param_vals' = x'
  /\ esds' = FALSE
  /\ target' = trial
  /\ pc' = "loop"
  /\ UNCHANGED <<config_vars, history, reason_for_termination, f_, mu, nu,
                 rho, small_step, nfun>>

\* a Levenberg-Marquardt break by one of the tests before the trial step
LMBreak ==
  /\ pc = "tests"
  /\ engine = "LM"
  /\ LET r == LMTermination(history, target, small_step, n_iterations, max_iterations)
     IN  /\ r # Continue
         /\ reason_for_termination' = <<r>>
  /\ pc' = "finalise"
  /\ UNCHANGED <<config_vars, history, x, old_x, param_vals, esds, target,
                 old_target, f_, n_iterations, mu, nu, rho, small_step, nfun>>

\* rho > 0
Accepted(r) == Positive(r)

TrialsExhaustedAboveCap(n) == n > NU_CAP

\* nu >= 8192
TrialsExhausted(n) == n >= NU_CAP

\* the damping after an accepted step: mu *= max(1/3, 1 - (2*rho - 1)**3)
MuAccepted(m, r) == MuTimes(m, ShrinkFactor(r)[1], ShrinkFactor(r)[2])

\* the damping after a rejected step: mu *= nu
MuRejected(m, n) == MuTimes(m, n, 1)

JournalRowKept(j) == j

\* the journal after a rejected step: del_last_row()
JournalRejected(j) == del_last_row(j)

\* the trial step: step_forward(), n_iterations += 1,
\* build_up(objective_only=True), the gain ratio, and acceptance or
\* step_backward(); then build_up() unless the trials are exhausted.
\* trial is what predict() yields at the trial vector.
LMTrial(trial, expected_decrease) ==
  /\ pc = "tests"
  /\ engine = "LM"
  /\ LMTermination(history, target, small_step, n_iterations, max_iterations) = Continue
  /\ n_iterations' = n_iterations + 1
  /\ esds' = FALSE
  /\ LET r == <<f_[1] - objective(trial), expected_decrease>>
     IN  /\ rho' = r
         /\ IF Accepted(r)
            THEN /\ mu' = MuAccepted(mu, r)
                 /\ nu' = 2
                 /\ old_x' = Some(x)
                 /\ old_target' = target
                 /\ x' = step_forward_x(n_iterations)
                 /\ param_vals' = x'
                 /\ target' = trial
                 /\ pc' = "loop"
                 /\ UNCHANGED <<history, reason_for_termination>>
            ELSE /\ x' = x
                 /\ old_x' = None
                 /\ history' = JournalRejected(history)
                 /\ old_target' = old_target
                 /\ IF TrialsExhausted(nu)
                    THEN /\ reason_for_termination' = <<MAX_TRIAL_ITERATIONS>>
                         /\ param_vals' = step_forward_x(n_iterations)
                         /\ target' = trial
                         /\ pc' = "finalise"
                         /\ UNCHANGED <<mu, nu>>
                    ELSE /\ mu' = MuRejected(mu, nu)
                         /\ nu' = nu * 2
                         /\ param_vals' = x
                         /\ target' = target
                         /\ pc' = "loop"
                         /\ UNCHANGED reason_for_termination
  /\ UNCHANGED <<config_vars, f_, small_step, nfun>>

finalise_runs_after_a_step(j) == get_num_steps(j) >= 1

\* AdaptLstbx.finalise: nothing with an empty journal; otherwise the
\* variance-covariance matrix, the state uncertainties and set_param_esds
finalise_runs(j) == get_nrows(j) # 0

Finalise ==
  /\ pc = "finalise"
  /\ esds' = (IF finalise_runs(history) THEN TRUE ELSE esds)
  /\ pc' = "returned"
  /\ UNCHANGED <<config_vars, history, reason_for_termination, x, old_x,
                 param_vals, target, old_target, f_, n_iterations, mu, nu,
                 rho, small_step, nfun>>

---------------------------------------------------------------------------
(* AdaptLbfgs.  lbfgs.run is the scitbx minimizer: it owns the loop, moves *)
(* x, calls compute_functional_and_gradients and callback_after_step, and  *)
(* hands back its log and minimizer.error, which is all run_lbfgs reads.   *)

\* run_lbfgs up to the call of lbfgs.run
RunLbfgsStart ==
  /\ pc = "constructed"
  /\ engine = "LBFGS"
  /\ pc' = "solver"
  /\ UNCHANGED <<config_vars, history, reason_for_termination, x, old_x,
                 param_vals, esds, target, old_target, f_, n_iterations, mu,
                 nu, rho, small_step, nfun>>

\* compute_functional_and_gradients: prepare_for_step() at the vector the
\* minimizer asks for (the starting vector first, a new one afterwards)
ComputeFunctionalAndGradients ==
  /\ pc = "solver"
  /\ nfun < MaxCalls
  /\ x' = nfun
  /\ param_vals' = x'
  /\ esds' = FALSE
  /\ target' \in (IF nfun = 0 THEN {target} ELSE Predictions)
  /\ f_' = Some(functional(target'))
  /\ nfun' = nfun + 1
  /\ UNCHANGED <<config_vars, history, reason_for_termination, old_x,
                 old_target, n_iterations, mu, nu, rho, small_step, pc>>

\* the result of callback_after_step once the row is journaled
CallbackReason(j, t) ==
  IF achieved(t) THEN TARGET_ACHIEVED
  ELSE IF test_rmsd_convergence(j) THEN RMSD_CONVERGED
  ELSE Continue

\* callback_after_step, called by the minimizer after a step (which took
\* at least one evaluation)
CallbackAfterStep ==
  /\ pc = "solver"
  /\ nfun >= 1
  /\ get_nrows(history) < nfun
  /\ IF rmsds_raises(target)
     THEN /\ history' = journal_row_begun(history, target)
          /\ pc' = "raised"
          /\ UNCHANGED reason_for_termination
     ELSE /\ history' = update_journal(history, target, param_vals, f_[1])
          /\ LET r == CallbackReason(history', target)
             IN  IF r = Continue
                 THEN /\ pc' = "solver"
                      /\ UNCHANGED reason_for_termination
                 ELSE /\ pc' = "stopping"
                      /\ reason_for_termination' = <<r>>
  /\ UNCHANGED <<config_vars, x, old_x, param_vals, esds, target, old_target,
                 f_, n_iterations, mu, nu, rho, small_step, nfun>>

\* run_lbfgs after lbfgs.run: the last "lbfgs minimizer stop: " line of the
\* log, if any, is appended to the reason (or becomes it); a minimizer.error
\* then replaces the reason
ReasonAfterLbfgs(reason, stop_line, error) ==
  LET r1 == IF stop_line
            THEN (IF reason # None THEN reason \o <<"\n", LBFGS_STOP>>
                  ELSE <<LBFGS_STOP>>)
            ELSE reason
  IN  IF error THEN <<LBFGS_ERROR>> ELSE r1

\* lbfgs.run returns: stop_line says whether its log holds a stop line,
\* error whether minimizer.error is set
RunLbfgsReturn(stop_line, error) ==
  /\ pc \in {"solver", "stopping"}
  /\ reason_for_termination' =
       ReasonAfterLbfgs(reason_for_termination, stop_line, error)
  /\ pc' = "returned"
  /\ UNCHANGED <<config_vars, history, x, old_x, param_vals, esds, target,
                 old_target, f_, n_iterations, mu, nu, rho, small_step, nfun>>

---------------------------------------------------------------------------
(* Spec: one run() of one refinery.                                        *)

Next ==
  \/ RunStart
  \/ Solve
  \/ GNBreak
  \/ \E trial \in Predictions : GNStepForward(trial)
  \/ LMBreak
  \/ \E trial \in Predictions, e \in ExpectedDecreases : LMTrial(trial, e)
  \/ Finalise
  \/ RunLbfgsStart
  \/ ComputeFunctionalAndGradients
  \/ CallbackAfterStep
  \/ \E stop_line \in BOOLEAN, error \in BOOLEAN : RunLbfgsReturn(stop_line, error)

Spec == Init /\ [][Next]_vars

\* SpecGN: Gauss-Newton runs of up to three journaled rows, over
\* predictions with two more RMSD values, so that the third row can be
\* reached without the RMSDs having converged, and an RMSD of zero can be
\* the previous one
WidePredictions ==
  Predictions \cup
  [nref : MatchCounts, objective : 0..MaxObjective,
   rmsd : {<<10003, 10000, 10000>>, <<0, 10000, 10000>>}]

GNInit ==
  /\ Init
  /\ engine = "GN"
  /\ max_iterations = 2

GNNext ==
  \/ RunStart
  \/ Solve
  \/ GNBreak
  \/ \E trial \in WidePredictions : GNStepForward(trial)
  \/ Finalise

SpecGN == GNInit /\ [][GNNext]_vars

\* run() is one synchronous call: every step that can be taken is taken
FairSpec == Spec /\ WF_vars(Next)

Returned == pc = "returned"

Raised == pc = "raised"

---------------------------------------------------------------------------
(* SpecJournal: a Journal driven by arbitrary calls of its four methods.   *)

JournalInit ==
  /\ history = EmptyJournal
  /\ reason_for_termination = None
  /\ jcall = [op |-> "new", key |-> "", value |-> 0]
  /\ engine = "GN"
  /\ max_iterations = 0
  /\ nparam = 1
  /\ step_threshold = FALSE
  /\ pc = "journal"
  /\ x = 0
  /\ old_x = None
  /\ param_vals = 0
  /\ esds = FALSE
  /\ target = NoMatches
  /\ old_target = NoMatches
  /\ f_ = None
  /\ n_iterations = 0
  /\ mu = None
  /\ nu = 0
  /\ rho = None
  /\ small_step = FALSE
  /\ nfun = 0
  /\ NoParameterisation

CallAddColumn(key) ==
  /\ history' = add_column(history, key)
  /\ jcall' = [op |-> "add_column", key |-> key, value |-> 0]
  /\ UNCHANGED <<reason_for_termination, run_vars>>

CallAddRow ==
  /\ history.nrows < MaxRows
  /\ ColumnsAsserted(history)
  /\ history' = add_row(history)
  /\ jcall' = [op |-> "add_row", key |-> "", value |-> 0]
  /\ UNCHANGED <<reason_for_termination, run_vars>>

CallDelLastRow ==
  /\ ColumnsAsserted(history)
  /\ history' = del_last_row(history)
  /\ jcall' = [op |-> "del_last_row", key |-> "", value |-> 0]
  /\ UNCHANGED <<reason_for_termination, run_vars>>

CallSetLastCell(key, value) ==
  /\ history' = set_last_cell(history, key, value)
  /\ jcall' = [op |-> "set_last_cell", key |-> key, value |-> value]
  /\ UNCHANGED <<reason_for_termination, run_vars>>

JournalNext ==
  \/ \E key \in JournalKeys : CallAddColumn(key)
  \/ CallAddRow
  \/ CallDelLastRow
  \/ \E key \in JournalKeys, value \in CellValues : CallSetLastCell(key, value)

SpecJournal == JournalInit /\ [][JournalNext]_vars

---------------------------------------------------------------------------
(* Parameter and ModelParameterisation of                                  *)
(* parameterisation/model_parameters.py.  A Parameter is the record        *)
(* [name, value, esd, fixed]; a ModelParameterisation is the record        *)
(* [param, total_len, num_free, state, exp_ids], where num_free is the     *)
(* cached count (None until num_free() is called) and state is what the    *)
(* last compose() built from the parameter values.  A method that can      *)
(* raise yields [m |-> the object it leaves behind, ok |-> returned].      *)

ParamValues == {0, 1}

\* an esd is None or a number; one number is told from None
EsdValues == {None, Some(1)}

Parameter(name, value) ==
  [name |-> name, value |-> value, esd |-> None, fixed |-> FALSE]

set_value_keeping_esd(p, val) == [p EXCEPT !.value = val]

\* Parameter.value setter
set_value(p, val) == [p EXCEPT !.value = val, !.esd = None]

\* Parameter.esd setter
set_esd(p, e) == [p EXCEPT !.esd = e]

IsFree(p) == ~p.fixed

CountFree(params) == Len(SelectSeq(params, IsFree))

\* compose(): the model state is rebuilt from the current parameter values
compose(m) ==
  [m EXCEPT !.state = [i \in 1..Len(m.param) |-> m.param[i].value]]

ModelParameterisation(param_list, experiment_ids) ==
  compose([param |-> param_list, total_len |-> Len(param_list),
           num_free |-> None, state |-> <<>>, exp_ids |-> experiment_ids])

num_free(m) ==
  IF m.num_free = None THEN CountFree(m.param) ELSE m.num_free[1]

\* the object after a call of num_free(): the count is cached
num_free_called(m) == [m EXCEPT !.num_free = Some(num_free(m))]

num_total(m) == m.total_len

get_params(m, only_free) ==
  IF only_free THEN SelectSeq(m.param, IsFree) ELSE m.param

get_param_vals(m, only_free) ==
  LET ps == get_params(m, only_free)
  IN  [i \in 1..Len(ps) |-> ps[i].value]

get_param_names(m, only_free) ==
  LET ps == get_params(m, only_free)
  IN  [i \in 1..Len(ps) |-> ps[i].name]

\* for p in self._param: if not p.get_fixed(): p.value = v.next()
\* (v.next() on an exhausted iterator raises and ends the loop)
RECURSIVE assign_free(_, _)
assign_free(params, vals) ==
  IF params = <<>> THEN <<>>
  ELSE IF Head(params).fixed
       THEN <<Head(params)>> \o assign_free(Tail(params), vals)
       ELSE IF vals = <<>>
            THEN params
            ELSE <<set_value(Head(params), Head(vals))>>
                   \o assign_free(Tail(params), Tail(vals))

set_param_vals_checking_last(m, vals) ==
  LET m1 == num_free_called(m)
      m2 == [m1 EXCEPT !.param = assign_free(m.param, vals)]
  IN  IF CountFree(m.param) > Len(vals) THEN [m |-> m2, ok |-> FALSE]
      ELSE IF Len(vals) # num_free(m)   THEN [m |-> compose(m2), ok |-> FALSE]
      ELSE [m |-> compose(m2), ok |-> TRUE]

set_param_vals(m, vals) ==
  LET m1 == num_free_called(m)
      m2 == [m1 EXCEPT !.param = assign_free(m.param, vals)]
  IN  IF Len(vals) # num_free(m)     THEN [m |-> m1, ok |-> FALSE]
      ELSE IF CountFree(m.param) > Len(vals) THEN [m |-> m2, ok |-> FALSE]
      ELSE [m |-> compose(m2), ok |-> TRUE]

get_fixed(m) == [i \in 1..Len(m.param) |-> m.param[i].fixed]

set_fixed_keeping_count(m, fix) ==
  IF Len(fix) # Len(m.param) THEN [m |-> m, ok |-> FALSE]
  ELSE [m |-> [m EXCEPT !.param = [i \in 1..Len(m.param) |->
                                     [m.param[i] EXCEPT !.fixed = fix[i]]]],
        ok |-> TRUE]

set_fixed(m, fix) ==
  IF Len(fix) # Len(m.param) THEN [m |-> m, ok |-> FALSE]
  ELSE [m |-> [m EXCEPT !.param = [i \in 1..Len(m.param) |->
                                     [m.param[i] EXCEPT !.fixed = fix[i]]],
                        !.num_free = None],
        ok |-> TRUE]

\* sequences over S of length lo..hi
Vectors(S, lo, hi) == UNION {[1..n -> S] : n \in lo..hi}

\* arguments for a method that wants a sequence of one of the lengths in
\* ns: every sequence of such a length, and one sequence of every other
\* length up to hi
Arguments(S, ns, hi) ==
  UNION {[1..n -> S] : n \in ns \cap 0..hi}
    \cup {[i \in 1..n |-> CHOOSE v \in S : TRUE] : n \in 0..hi}

---------------------------------------------------------------------------
(* PredictionParameterisation of parameterisation/prediction_parameters.py *)
(* The object is the record [cls, experiments, detector, beam,            *)
(* xl_orientation, xl_unit_cell, length]: its class, its experiments, four *)
(* lists of indices into models and the _length computed by the           *)
(* constructor.                                                            *)

\* for model in block: length += model.num_free()
RECURSIVE block_len(_, _)
block_len(ms, block) ==
  IF block = <<>> THEN 0
  ELSE num_free(ms[Head(block)]) + block_len(ms, Tail(block))

pp_len(ms, p) ==
  block_len(ms, p.detector) + block_len(ms, p.beam)
    + block_len(ms, p.xl_orientation) + block_len(ms, p.xl_unit_cell)

\* __len__
len_self(p) == p.length

RECURSIVE block_vals_last_first(_, _)
block_vals_last_first(ms, block) ==
  IF block = <<>> THEN <<>>
  ELSE block_vals_last_first(ms, Tail(block))
         \o get_param_vals(ms[Head(block)], TRUE)

\* [x.get_param_vals() for x in block], flattened
RECURSIVE block_vals(_, _)
block_vals(ms, block) ==
  IF block = <<>> THEN <<>>
  ELSE get_param_vals(ms[Head(block)], TRUE) \o block_vals(ms, Tail(block))

pp_get_param_vals(ms, p) ==
  block_vals(ms, p.detector) \o block_vals(ms, p.beam)
    \o block_vals(ms, p.xl_orientation) \o block_vals(ms, p.xl_unit_cell)

\* prefix % i + x for i, l in enumerate(lists) for x in l; a name is the
\* triple <<prefix, i, x>>
RECURSIVE block_names(_, _, _, _)
block_names(ms, block, prefix, i) ==
  IF block = <<>> THEN <<>>
  ELSE LET l == get_param_names(ms[Head(block)], TRUE)
       IN  [j \in 1..Len(l) |-> <<prefix, i, l[j]>>]
             \o block_names(ms, Tail(block), prefix, i + 1)

pp_get_param_names_cell_first(ms, p) ==
  block_names(ms, p.xl_unit_cell, "Crystal", 0)
    \o block_names(ms, p.detector, "Detector", 0)
    \o block_names(ms, p.beam, "Beam", 0)
    \o block_names(ms, p.xl_orientation, "Crystal", 0)

pp_get_param_names(ms, p) ==
  block_names(ms, p.detector, "Detector", 0)
    \o block_names(ms, p.beam, "Beam", 0)
    \o block_names(ms, p.xl_orientation, "Crystal", 0)
    \o block_names(ms, p.xl_unit_cell, "Crystal", 0)

\* tmp = [it.next() for i in range(model.num_free())]
\* model.set_param_vals(tmp)
\* on st = [models, it, ok]: the models so far, what the iterator still
\* holds and whether no call has raised
set_model_vals(st, k) ==
  LET m == st.models[k]
      n == num_free(m)
      r == set_param_vals(m, SubSeq(st.it, 1, n))
  IN  IF ~st.ok THEN st
      ELSE IF Len(st.it) < n
           THEN [models |-> [st.models EXCEPT ![k] = num_free_called(m)],
                 it |-> <<>>, ok |-> FALSE]
           ELSE [models |-> [st.models EXCEPT ![k] = r.m],
                 it |-> SubSeq(st.it, n + 1, Len(st.it)), ok |-> r.ok]

RECURSIVE set_block_vals(_, _)
set_block_vals(st, block) ==
  IF block = <<>> THEN st
  ELSE set_block_vals(set_model_vals(st, Head(block)), Tail(block))

pp_set_param_vals(ms, p, vals) ==
  LET s0 == [models |-> ms, it |-> vals, ok |-> TRUE]
      s1 == set_block_vals(s0, p.detector)
      s2 == set_block_vals(s1, p.beam)
      s3 == set_block_vals(s2, p.xl_orientation)
      s4 == set_block_vals(s3, p.xl_unit_cell)
  IN  IF Len(vals) # len_self(p) THEN [models |-> ms, ok |-> FALSE]
      ELSE [models |-> s4.models, ok |-> s4.ok]

\* tmp = [it.next() for i in range(model.num_free())]
\* model.set_param_esds(tmp)
\* on st = [handed, it, ok]: handed lists the pairs <<model, tmp>> given to
\* the models' set_param_esds so far
hand_model_esds(st, ms, k) ==
  LET n == num_free(ms[k])
  IN  IF ~st.ok THEN st
      ELSE IF Len(st.it) < n
           THEN [handed |-> st.handed, it |-> <<>>, ok |-> FALSE]
           ELSE [handed |-> Append(st.handed, <<k, SubSeq(st.it, 1, n)>>),
                 it |-> SubSeq(st.it, n + 1, Len(st.it)), ok |-> TRUE]

RECURSIVE hand_block_esds(_, _, _)
hand_block_esds(st, ms, block) ==
  IF block = <<>> THEN st
  ELSE hand_block_esds(hand_model_esds(st, ms, Head(block)), ms, Tail(block))

pp_set_param_esds(ms, p, es) ==
  LET s0 == [handed |-> <<>>, it |-> es, ok |-> TRUE]
      s1 == hand_block_esds(s0, ms, p.detector)
      s2 == hand_block_esds(s1, ms, p.beam)
      s3 == hand_block_esds(s2, ms, p.xl_orientation)
      s4 == hand_block_esds(s3, ms, p.xl_unit_cell)
  IN  IF Len(es) # len_self(p) THEN [handed |-> <<>>, ok |-> FALSE]
      ELSE [handed |-> s4.handed, ok |-> s4.ok]

\* every model after its num_free() was called
all_num_free_called(ms) == [k \in 1..Len(ms) |-> num_free_called(ms[k])]

\* __init__: the lists are kept and _length is computed once
PredictionParameterisation(ms, det, beam, xlo, xluc) ==
  LET p == [cls |-> "PredictionParameterisation", experiments |-> <<>>,
            detector |-> det, beam |-> beam, xl_orientation |-> xlo,
            xl_unit_cell |-> xluc, length |-> 0]
  IN  [p EXCEPT !.length = pp_len(ms, p)]

---------------------------------------------------------------------------
(* SpecModel: one ModelParameterisation driven by arbitrary calls of its   *)
(* methods.  SpecPred: a PredictionParameterisation over three models,     *)
(* built as refinement builds it (parameters fixed first, then the         *)
(* constructor, then the Refinery taking x), and then driven by calls on   *)
(* it and on its models.                                                   *)

MaxParams == 3

ParamNames == <<"p1", "p2", "p3", "p4">>

NewParams(vals) == [i \in 1..Len(vals) |-> Parameter(ParamNames[i], vals[i])]

\* the refinery and its journal are left as constructed
IdleRefinery ==
  /\ history = EmptyJournal
  /\ reason_for_termination = None
  /\ jcall = [op |-> "new", key |-> "", value |-> 0]
  /\ engine = "GN"
  /\ max_iterations = 0
  /\ nparam = 1
  /\ step_threshold = FALSE
  /\ pc = "parameterisation"
  /\ old_x = None
  /\ param_vals = 0
  /\ esds = FALSE
  /\ target = NoMatches
  /\ old_target = NoMatches
  /\ f_ = None
  /\ n_iterations = 0
  /\ mu = None
  /\ nu = 0
  /\ rho = None
  /\ small_step = FALSE
  /\ nfun = 0

ModelInit ==
  /\ IdleRefinery
  /\ x = 0
  /\ \E vals \in Vectors(ParamValues, 0, MaxParams) :
       models = <<ModelParameterisation(NewParams(vals), {0})>>
  /\ pp = None
  /\ pcall = [op |-> "new", arg |-> <<>>, ok |-> TRUE]
  /\ reflections = <<>>
  /\ gradients = None
  /\ matches = None

\* models[k].set_fixed(fix)
CallSetFixed(k, fix) ==
  LET r == set_fixed(models[k], fix)
  IN  /\ models' = [models EXCEPT ![k] = r.m]
      /\ pcall' = [op |-> "set_fixed", arg |-> fix, ok |-> r.ok]
      /\ UNCHANGED <<journal_vars, engine_vars, x, pp, predict_vars>>

\* models[k].set_param_vals(vals)
CallSetParamVals(k, vals) ==
  LET r == set_param_vals(models[k], vals)
  IN  /\ models' = [models EXCEPT ![k] = r.m]
      /\ pcall' = [op |-> "set_param_vals", arg |-> vals, ok |-> r.ok]
      /\ UNCHANGED <<journal_vars, engine_vars, x, pp, predict_vars>>

\* models[k].set_param_vals(models[k].get_param_vals())
CallResetParamVals(k) ==
  LET vals == get_param_vals(models[k], TRUE)
      r == set_param_vals(models[k], vals)
  IN  /\ models' = [models EXCEPT ![k] = r.m]
      /\ pcall' = [op |-> "set_param_vals(get_param_vals())", arg |-> vals,
                   ok |-> r.ok]
      /\ UNCHANGED <<journal_vars, engine_vars, x, pp, predict_vars>>

\* models[k].num_free()
CallNumFree(k) ==
  /\ models' = [models EXCEPT ![k] = num_free_called(@)]
  /\ pcall' = [op |-> "num_free", arg |-> <<>>, ok |-> TRUE]
  /\ UNCHANGED <<journal_vars, engine_vars, x, pp, predict_vars>>

\* models[k]._param[i].esd = e
WriteEsd(k, i, e) ==
  /\ i \in 1..Len(models[k].param)
  /\ models' = [models EXCEPT ![k].param[i] = set_esd(@, e)]
  /\ pcall' = [op |-> "esd", arg |-> <<i, e>>, ok |-> TRUE]
  /\ UNCHANGED <<journal_vars, engine_vars, x, pp, predict_vars>>

ModelNext ==
  \/ \E fix \in Vectors(BOOLEAN, 0, MaxParams) : CallSetFixed(1, fix)
  \/ \E vals \in Vectors(ParamValues, 0, MaxParams) : CallSetParamVals(1, vals)
  \/ CallResetParamVals(1)
  \/ CallNumFree(1)
  \/ \E i \in 1..MaxParams, e \in EsdValues : WriteEsd(1, i, e)

SpecModel == ModelInit /\ [][ModelNext]_vars

\* parameters per model, and the four lists of the constructor: two
\* detector models, no beam and no orientation model, one unit cell model
ModelSizes == <<1, 1, 1>>

Detectors == <<1, 2>>

Beams == <<>>

XlOrientations == <<>>

XlUnitCells == <<3>>

TotalParams == ModelSizes[1] + ModelSizes[2] + ModelSizes[3]

PredInit ==
  /\ IdleRefinery
  /\ \E f1 \in [1..ModelSizes[1] -> BOOLEAN], f2 \in [1..ModelSizes[2] -> BOOLEAN],
        f3 \in [1..ModelSizes[3] -> BOOLEAN] :
       LET new(n, exp_ids) ==
             ModelParameterisation(NewParams([i \in 1..n |-> 0]), exp_ids)
           ms == <<set_fixed(new(ModelSizes[1], {0}), f1).m,
                   set_fixed(new(ModelSizes[2], {1}), f2).m,
                   set_fixed(new(ModelSizes[3], {0, 1}), f3).m>>
           p  == PredictionParameterisation(ms, Detectors, Beams,
                                            XlOrientations, XlUnitCells)
       IN  /\ len_self(p) # 0
           /\ models = all_num_free_called(ms)
           /\ pp = p
  /\ x = pp_get_param_vals(models, pp)
  /\ pcall = [op |-> "new", arg |-> <<>>, ok |-> TRUE]
  /\ reflections = <<>>
  /\ gradients = None
  /\ matches = None

\* pp.set_param_vals(vals)
PPSetParamVals(vals) ==
  LET r == pp_set_param_vals(models, pp, vals)
  IN  /\ models' = r.models
      /\ pcall' = [op |-> "pp.set_param_vals", arg |-> vals, ok |-> r.ok]
      /\ UNCHANGED <<journal_vars, engine_vars, x, pp, predict_vars>>

\* pp.set_param_vals(pp.get_param_vals())
PPResetParamVals ==
  LET vals == pp_get_param_vals(models, pp)
      r == pp_set_param_vals(models, pp, vals)
  IN  /\ models' = r.models
      /\ pcall' = [op |-> "pp.set_param_vals(pp.get_param_vals())",
                   arg |-> vals, ok |-> r.ok]
      /\ UNCHANGED <<journal_vars, engine_vars, x, pp, predict_vars>>

PredNext ==
  \/ \E k \in 1..Len(models) :
       \E fix \in Arguments(BOOLEAN, {ModelSizes[k]}, MaxParams) :
         CallSetFixed(k, fix)
  \/ \E k \in 1..Len(models) :
       \E vals \in Arguments(ParamValues, {num_free(models[k])}, MaxParams) :
         CallSetParamVals(k, vals)
  \/ \E vals \in Arguments(ParamValues, {len_self(pp), pp_len(models, pp)},
                            TotalParams + 1) :
       PPSetParamVals(vals)
  \/ PPResetParamVals

SpecPred == PredInit /\ [][PredNext]_vars

---------------------------------------------------------------------------
(* get_gradients of XYPhiPredictionParameterisation                        *)
(* (prediction_parameters.py) and of StillsPredictionParameterisation      *)
(* (prediction_parameters_stills2.py).  A reflection is the record         *)
(* [id, panel, small]: its experiment, its panel and whether its           *)
(* angle-derivative denominator is within 1.e-6 of zero.  An entry of a    *)
(* gradient vector is ZERO (the 0. the vector was created with), FINITE (a *)
(* derivative that was computed) or DEGENERATE (the outcome of a division  *)
(* by a near-zero denominator).  experiments lists the number of panels of *)
(* each experiment's detector; experiment ids count from 0.                *)

ZERO == "0."

FINITE == "finite"

DEGENERATE == "degenerate"

\* _prepare_gradient_vectors(m, n): n vectors of m zeros
prepare_gradient_vectors(m, n) == [q \in 1..n |-> [i \in 1..m |-> ZERO]]

\* vec.set_selected(isel, values), values given per reflection
set_selected(vec, isel, values) ==
  [i \in DOMAIN vec |-> IF i \in isel THEN values[i] ELSE vec[i]]

\* the vectors of the parameters qs written at isel
write_selected(vecs, qs, isel, values) ==
  [q \in DOMAIN vecs |->
     IF q \in qs THEN set_selected(vecs[q], isel, values) ELSE vecs[q]]

\* (reflections['id'] == iexp).iselection()
experiment_to_idx(refl, iexp) == {i \in 1..Len(refl) : refl[i].id = iexp}

affected_whole_table(refl, m) == 1..Len(refl)

\* for exp_id in dp.get_experiment_ids(): isel.extend(experiment_to_idx[exp_id])
affected(refl, m) == UNION {experiment_to_idx(refl, e) : e \in m.exp_ids}

\* isel.select(panel == panel_id) over the panels of a detector
on_panels(refl, isel, npanels) ==
  {i \in isel : refl[i].panel \in 0..(npanels - 1)}

AllFinite(refl) == [i \in 1..Len(refl) |-> FINITE]

\* what a division by the reflection's denominator gives
Quotient(refl) ==
  [i \in 1..Len(refl) |-> IF refl[i].small THEN DEGENERATE ELSE FINITE]

\* XYPhi, one detector parameterisation: dX/dp and dY/dp are set panel by
\* panel, over the panels of exp.detector, exp being what the loop over
\* the experiments left behind: the last experiment
xyphi_detector(g, ms, k, refl, exps) ==
  LET sub == on_panels(refl, affected(refl, ms[k]), exps[Len(exps)].npanels)
      qs  == (g.iparam + 1)..(g.iparam + num_free(ms[k]))
  IN  [dX |-> write_selected(g.dX, qs, sub, AllFinite(refl)),
       dY |-> write_selected(g.dY, qs, sub, AllFinite(refl)),
       dZ |-> g.dZ,
       iparam |-> g.iparam + num_free(ms[k])]

\* XYPhi, one beam, orientation or unit cell parameterisation
xyphi_other(g, ms, k, refl) ==
  LET isel == affected(refl, ms[k])
      qs   == (g.iparam + 1)..(g.iparam + num_free(ms[k]))
  IN  [dX |-> write_selected(g.dX, qs, isel, AllFinite(refl)),
       dY |-> write_selected(g.dY, qs, isel, AllFinite(refl)),
       dZ |-> write_selected(g.dZ, qs, isel, AllFinite(refl)),
       iparam |-> g.iparam + num_free(ms[k])]

RECURSIVE xyphi_block(_, _, _, _, _, _)
xyphi_block(g, ms, block, refl, exps, is_detector) ==
  IF block = <<>> THEN g
  ELSE xyphi_block(IF is_detector
                   THEN xyphi_detector(g, ms, Head(block), refl, exps)
                   ELSE xyphi_other(g, ms, Head(block), refl),
                   ms, Tail(block), refl, exps, is_detector)

\* the reflection flex.min_index picks for the diagnostics
SmallReflections(refl) == {i \in 1..Len(refl) : refl[i].small}

Raised_(refl) ==
  [raised |-> TRUE,
   diagnostics |-> [count |-> Cardinality(SmallReflections(refl)),
                    total |-> Len(refl),
                    such_as |-> CHOOSE i \in SmallReflections(refl) : TRUE],
   dX |-> <<>>, dY |-> <<>>, dZ |-> <<>>]

Returned_(g) ==
  [raised |-> FALSE, diagnostics |-> None, dX |-> g.dX, dY |-> g.dY,
   dZ |-> g.dZ]

xyphi_get_gradients_core(ms, p, refl) ==
  LET zeros == prepare_gradient_vectors(Len(refl), len_self(p))
      g0 == [dX |-> zeros, dY |-> zeros, dZ |-> zeros, iparam |-> 0]
      g1 == xyphi_block(g0, ms, p.detector, refl, p.experiments, TRUE)
      g2 == xyphi_block(g1, ms, p.beam, refl, p.experiments, FALSE)
      g3 == xyphi_block(g2, ms, p.xl_orientation, refl, p.experiments, FALSE)
      g4 == xyphi_block(g3, ms, p.xl_unit_cell, refl, p.experiments, FALSE)
  IN  IF SmallReflections(refl) # {} THEN Raised_(refl) ELSE Returned_(g4)

\* __init__: the dictionaries e2dp, e2bp, e2xop, e2xucp keep, for an
\* experiment, the last parameterisation of the list that names it
exp_to_param(ms, block, iexp) ==
  LET using == {i \in 1..Len(block) : iexp \in ms[block[i]].exp_ids}
  IN  IF using = {} THEN None
      ELSE Some(CHOOSE i \in using : \A j \in using : j <= i)

\* stills, the helper of one list for the experiment iexp: the derivatives
\* are set for the parameterisation of the experiment only and the pointer
\* moves over the others; i counts the parameterisations of the list
RECURSIVE stills_block(_, _, _, _, _, _, _, _)
stills_block(g, ms, block, i, refl, iexp, exps, is_detector) ==
  IF i > Len(block) THEN g
  ELSE LET k    == block[i]
           isel == experiment_to_idx(refl, iexp)
           sub  == on_panels(refl, isel, exps[iexp + 1].npanels)
           qs   == (g.iparam + 1)..(g.iparam + num_free(ms[k]))
           moved == [g EXCEPT !.iparam = @ + num_free(ms[k])]
           g1 == IF exp_to_param(ms, block, iexp) # Some(i) THEN moved
                 ELSE IF is_detector
                 THEN [moved EXCEPT
                         !.dpv = write_selected(@, qs, sub, AllFinite(refl))]
                 ELSE [moved EXCEPT
                         !.dpv = write_selected(@, qs, isel, Quotient(refl)),
                         !.dZ = write_selected(@, qs, isel, Quotient(refl))]
       IN  stills_block(g1, ms, block, i + 1, refl, iexp, exps, is_detector)

\* stills, the loop over the experiments
RECURSIVE stills_experiments(_, _, _, _, _)
stills_experiments(g, ms, p, refl, iexp) ==
  IF iexp >= Len(p.experiments) THEN g
  ELSE LET g0 == [g EXCEPT !.iparam = 0]
           g1 == stills_block(g0, ms, p.detector, 1, refl, iexp,
                              p.experiments, TRUE)
           g2 == stills_block(g1, ms, p.beam, 1, refl, iexp,
                              p.experiments, FALSE)
           g3 == stills_block(g2, ms, p.xl_orientation, 1, refl, iexp,
                              p.experiments, FALSE)
           g4 == stills_block(g3, ms, p.xl_unit_cell, 1, refl, iexp,
                              p.experiments, FALSE)
       IN  stills_experiments(g4, ms, p, refl, iexp + 1)

\* _calc_dX_dp_and_dY_dp_from_dpv_dp: w_inv * (du_dp - dw_dp * u_w_inv)
\* entry by entry, w being non-zero for a ray that meets its panel
calc_dX_dp_and_dY_dp_from_dpv_dp(dpv) == dpv

stills_get_gradients_core(ms, p, refl) ==
  LET zeros == prepare_gradient_vectors(Len(refl), len_self(p))
      g0 == [dpv |-> zeros, dZ |-> zeros, iparam |-> 0]
      g  == stills_experiments(g0, ms, p, refl, 0)
  IN  [raised |-> FALSE, diagnostics |-> None,
       dX |-> calc_dX_dp_and_dY_dp_from_dpv_dp(g.dpv),
       dY |-> calc_dX_dp_and_dY_dp_from_dpv_dp(g.dpv),
       dZ |-> g.dZ]

get_gradients(ms, p, refl) ==
  IF p.cls = "XYPhiPredictionParameterisation"
  THEN xyphi_get_gradients_core(ms, p, refl)
  ELSE stills_get_gradients_core(ms, p, refl)

---------------------------------------------------------------------------
(* SpecGrad: get_gradients called on a prediction parameterisation of      *)
(* either class over two experiments, with two detector models (one per    *)
(* experiment) and one beam model, for any small reflection table.         *)

MaxReflections == 2

GradientClasses ==
  {"XYPhiPredictionParameterisation", "StillsPredictionParameterisation"}

\* the detector of the first experiment has two panels, that of the second
\* has one
Experiments == <<[npanels |-> 2], [npanels |-> 1]>>

ExperimentIds == 0..(Len(Experiments) - 1)

Reflections ==
  {r \in [id : ExperimentIds, panel : 0..1, small : BOOLEAN] :
     r.panel < Experiments[r.id + 1].npanels}

GradInit ==
  /\ IdleRefinery
  /\ x = 0
  /\ \E cls \in GradientClasses, fix \in [1..3 -> BOOLEAN],
        beam_ids \in (SUBSET ExperimentIds) \ {{}} :
       LET new(k, exp_ids) ==
             set_fixed(ModelParameterisation(NewParams(<<0>>), exp_ids),
                       <<fix[k]>>).m
           ms == <<new(1, {0}), new(2, {1}), new(3, beam_ids)>>
           p  == PredictionParameterisation(ms, <<1, 2>>, <<3>>, <<>>, <<>>)
       IN  /\ len_self(p) # 0
           /\ models = all_num_free_called(ms)
           /\ pp = [p EXCEPT !.cls = cls, !.experiments = Experiments]
  /\ reflections \in Vectors(Reflections, 1, MaxReflections)
  /\ pcall = [op |-> "new", arg |-> <<>>, ok |-> TRUE]
  /\ gradients = None
  /\ matches = None

\* pp.get_gradients(reflections)
GetGradients ==
  /\ gradients = None
  /\ gradients' = Some(get_gradients(models, pp, reflections))
  /\ pcall' = [op |-> "get_gradients", arg |-> <<>>,
               ok |-> ~get_gradients(models, pp, reflections).raised]
  /\ UNCHANGED <<journal_vars, engine_vars, x, models, pp, reflections,
                 matches>>

GradNext == GetGradients

SpecGrad == GradInit /\ [][GradNext]_vars

---------------------------------------------------------------------------
(* Target._predict_core of target.py: the rotation angle of each           *)
(* prediction is brought to the turn of its observation.  Angles are       *)
(* counted in units of pi / HalfTurn.  SpecPredict: _predict_core called   *)
(* on a reflection [phi_obs, phi_cal, phi_resid], the reflection predictor *)
(* giving any angle.                                                       *)

HalfTurn == 4

TWO_PI == 2 * HalfTurn

\* fmod of C: the remainder has the sign of x
fmod(a, b) == IF a >= 0 THEN a % b ELSE 0 - ((0 - a) % b)

\* scitbx fmod_positive: the remainder brought into [0, b)
fmod_positive(a, b) == IF fmod(a, b) < 0 THEN fmod(a, b) + b ELSE fmod(a, b)

resid_not_wrapped(phi_obs, phi_calc) ==
  phi_calc - fmod_positive(phi_obs, TWO_PI)

\* resid = phi_calc - (flex.fmod_positive(phi_obs, TWO_PI))
\* resid = flex.fmod_positive((resid + pi), TWO_PI) - pi
resid(phi_obs, phi_calc) ==
  fmod_positive(phi_calc - fmod_positive(phi_obs, TWO_PI) + HalfTurn, TWO_PI)
    - HalfTurn

\* one row after _predict_core, the predictor having given phi_calc
predict_core_row(row, phi_calc) ==
  LET phi_cal == row.phi_obs + resid(row.phi_obs, phi_calc)
  IN  [phi_obs |-> row.phi_obs, phi_cal |-> phi_cal,
       phi_resid |-> Some(phi_cal - row.phi_obs)]

predict_core(refl, predicted) ==
  [i \in 1..Len(refl) |-> predict_core_row(refl[i], predicted[i])]

\* observations keep the full rotation from zero; predictions may lie in
\* any turn
Angles == (0 - TWO_PI)..(2 * TWO_PI)

PredictInit ==
  /\ IdleRefinery
  /\ x = 0
  /\ models = <<>>
  /\ pp = None
  /\ pcall = [op |-> "new", arg |-> <<>>, ok |-> TRUE]
  /\ \E phi_obs \in Angles :
       reflections = <<[phi_obs |-> phi_obs, phi_cal |-> 0, phi_resid |-> None]>>
  /\ gradients = None
  /\ matches = None

\* target._predict_core(reflections); arg records what the reflection
\* predictor wrote to xyzcal.mm
PredictCore(predicted) ==
  /\ reflections' = predict_core(reflections, predicted)
  /\ pcall' = [op |-> "_predict_core", arg |-> predicted, ok |-> TRUE]
  /\ UNCHANGED <<journal_vars, engine_vars, x, models, pp, gradients,
                 matches>>

PredictNext ==
  \E predicted \in [1..Len(reflections) -> Angles] : PredictCore(predicted)

SpecPredict == PredictInit /\ [][PredictNext]_vars

---------------------------------------------------------------------------
(* Target.predict and Target.update_matches. The reflection manager's     *)
(* table is `reflections`; a row is [id, visible, predicted, used, cal,   *)
(* resid]: visible is the set of parameter values at which the geometry   *)
(* predicts the reflection, cal the parameter value its calculated        *)
(* position was computed at, resid the one its residual was computed at.  *)
(* The parameter values of the prediction parameterisation are x.         *)

MaxObservations == 2

\* ReflectionManager.get_obs(): the manager's table itself (a reference)
get_obs(tbl) == tbl

\* ReflectionManager.reset_accepted_reflections(): used flag off everywhere
reset_accepted_reflections(tbl) ==
  [i \in 1..Len(tbl) |-> [tbl[i] EXCEPT !.used = FALSE]]

\* reflection_predictor.predict(reflections): the predicted flag and the
\* calculated position of the rows the current geometry predicts
reflection_predictor_predict(tbl, vals) ==
  [i \in 1..Len(tbl) |->
     IF vals \in tbl[i].visible
     THEN [tbl[i] EXCEPT !.predicted = TRUE, !.cal = Some(vals)]
     ELSE [tbl[i] EXCEPT !.predicted = FALSE]]

\* the residual columns of _predict_core: calculated minus observed, from
\* whatever calculated position each row holds
assign_residuals(tbl) ==
  [i \in 1..Len(tbl) |-> [tbl[i] EXCEPT !.resid = tbl[i].cal]]

\* mask = get_flags(predicted); set_flags(mask, used_in_refinement)
set_used_flags(tbl) ==
  [i \in 1..Len(tbl) |->
     [tbl[i] EXCEPT !.used = tbl[i].used \/ tbl[i].predicted]]

IsUsed(row) == row.used

\* ReflectionManager.get_matches(): a selection (copy) of the used rows
get_matches(tbl) == SelectSeq(tbl, IsUsed)

update_matches_ignoring_force(cached, tbl, force) ==
  IF cached = None \/ cached = Some(<<>>) THEN Some(get_matches(tbl))
  ELSE cached

\* if not self._matches or force: self._matches = get_matches()
update_matches(cached, tbl, force) ==
  IF cached = None \/ cached = Some(<<>>) \/ force THEN Some(get_matches(tbl))
  ELSE cached

---------------------------------------------------------------------------
(* SpecTarget: a Target whose parameter values are changed and whose      *)
(* predict() and get_num_matches() are called; pcall.arg lists the calls  *)
(* predict() has made so far and pcall.ok tells whether the method called *)
(* last has returned.                                                     *)

Observations ==
  [id : 1..MaxObservations, visible : SUBSET ParamValues,
   predicted : {FALSE}, used : {FALSE}, cal : {None}, resid : {None}]

TargetInit ==
  /\ IdleRefinery
  /\ x = 0
  /\ models = <<>>
  /\ pp = None
  /\ pcall = [op |-> "new", arg |-> <<>>, ok |-> TRUE]
  /\ reflections \in { t \in Vectors(Observations, MaxObservations, MaxObservations) :
                         \A i \in 1..Len(t) : t[i].id = i }
  /\ gradients = None
  /\ matches = None

TargetIdle == pcall.ok

InPredict(n) == pcall.op = "predict" /\ ~pcall.ok /\ Len(pcall.arg) = n

TargetFrame == UNCHANGED <<journal_vars, engine_vars, models, pp, gradients>>

\* prediction_parameterisation.set_param_vals(vals) between two predictions
TargetSetParamVals(vals) ==
  /\ TargetIdle
  /\ x' = vals
  /\ pcall' = [op |-> "set_param_vals", arg |-> <<vals>>, ok |-> TRUE]
  /\ UNCHANGED <<reflections, matches>>
  /\ TargetFrame

\* predict(): reflections = self._reflection_manager.get_obs()
PredictGetObs ==
  /\ TargetIdle
  /\ reflections' = get_obs(reflections)
  /\ pcall' = [op |-> "predict", arg |-> <<"get_obs">>, ok |-> FALSE]
  /\ UNCHANGED <<x, matches>>
  /\ TargetFrame

\* predict(): self._reflection_manager.reset_accepted_reflections()
PredictResetAccepted ==
  /\ InPredict(1)
  /\ reflections' = reset_accepted_reflections(reflections)
  /\ pcall' = [pcall EXCEPT !.arg = Append(@, "reset_accepted_reflections")]
  /\ UNCHANGED <<x, matches>>
  /\ TargetFrame

\* _predict_core(): self._reflection_predictor.predict(reflections)
PredictPredictor ==
  /\ InPredict(2)
  /\ reflections' = reflection_predictor_predict(reflections, x)
  /\ pcall' = [pcall EXCEPT !.arg = Append(@, "reflection_predictor.predict")]
  /\ UNCHANGED <<x, matches>>
  /\ TargetFrame

\* _predict_core(): the residual columns
PredictResiduals ==
  /\ InPredict(3)
  /\ reflections' = assign_residuals(reflections)
  /\ pcall' = [pcall EXCEPT !.arg = Append(@, "residuals")]
  /\ UNCHANGED <<x, matches>>
  /\ TargetFrame

\* predict(): reflections.set_flags(mask, used_in_refinement)
PredictSetFlags ==
  /\ InPredict(4)
  /\ reflections' = set_used_flags(reflections)
  /\ pcall' = [pcall EXCEPT !.arg = Append(@, "set_flags")]
  /\ UNCHANGED <<x, matches>>
  /\ TargetFrame

\* predict(): self.update_matches(force=True); return
PredictUpdateMatches ==
  /\ InPredict(5)
  /\ matches' = update_matches(matches, reflections, TRUE)
  /\ pcall' = [pcall EXCEPT !.arg = Append(@, "update_matches"), !.ok = TRUE]
  /\ UNCHANGED <<x, reflections>>
  /\ TargetFrame

\* get_num_matches(): update_matches(); return len(self._matches)
GetNumMatches ==
  /\ TargetIdle
  /\ matches' = update_matches(matches, reflections, FALSE)
  /\ pcall' = [op |-> "get_num_matches",
               arg |-> <<Len(update_matches(matches, reflections, FALSE)[1])>>,
               ok |-> TRUE]
  /\ UNCHANGED <<x, reflections>>
  /\ TargetFrame

TargetNext ==
  \/ \E vals \in ParamValues : TargetSetParamVals(vals)
  \/ PredictGetObs
  \/ PredictResetAccepted
  \/ PredictPredictor
  \/ PredictResiduals
  \/ PredictSetFlags
  \/ PredictUpdateMatches
  \/ GetNumMatches

SpecTarget == TargetInit /\ [][TargetNext]_vars

---------------------------------------------------------------------------
(* Target.split_matches_into_blocks.  jacobian_max_nref = 0 stands for     *)
(* None (both are false in `if self._jacobian_max_nref`).                  *)

MaxMatches == 7

MaxNproc == 3

MaxJacobianNref == 5

\* int(ceil(a / b)) under true division, a >= 0, b > 0
Ceil(a, b) == (a + b - 1) \div b

Min(a, b) == IF a <= b THEN a ELSE b

\* m[start:end] of Python for 0 <= start, 0 <= end
Slice(m, start, end) ==
  IF Min(start, Len(m)) >= Min(end, Len(m)) THEN <<>>
  ELSE SubSeq(m, start + 1, Min(end, Len(m)))

\* the number of blocks asked for
nblocks(n, nproc, jacobian_max_nref) ==
  IF jacobian_max_nref # 0 THEN Ceil(n * nproc, jacobian_max_nref) ELSE nproc

\* the blocks, or the exception: with no block the division by nblocks
\* raises ZeroDivisionError, with one block the loop body never binds
\* block_num and `block_num += 1` raises UnboundLocalError
split_matches_into_blocks(m, nproc, jacobian_max_nref) ==
  LET nb == nblocks(Len(m), nproc, jacobian_max_nref)
      blocksize == Ceil(Len(m), nb)
  IN  IF nb < 2 THEN [blocks |-> <<>>, ok |-> FALSE]
      ELSE [blocks |->
              [b \in 1..(nb - 1) |-> Slice(m, (b - 1) * blocksize, b * blocksize)]
                \o <<Slice(m, (nb - 1) * blocksize, Len(m))>>,
            ok |-> TRUE]

---------------------------------------------------------------------------
(* SpecBlocks: a Target holding between one and MaxMatches matches, whose  *)
(* split_matches_into_blocks is called once.                               *)

BlocksInit ==
  /\ IdleRefinery
  /\ x = 0
  /\ models = <<>>
  /\ pp = None
  /\ \E jacobian_max_nref \in 0..MaxJacobianNref :
       pcall = [op |-> "Target", arg |-> <<jacobian_max_nref>>, ok |-> TRUE,
                blocks |-> <<>>]
  /\ reflections = <<>>
  /\ gradients = None
  /\ \E n \in 1..MaxMatches : matches = Some([i \in 1..n |-> i])

\* target.split_matches_into_blocks(nproc)
SplitMatchesIntoBlocks(nproc) ==
  /\ pcall.op = "Target"
  /\ matches' = update_matches(matches, reflections, FALSE)
  /\ \E r \in {split_matches_into_blocks(matches'[1], nproc, pcall.arg[1])} :
       pcall' = [op |-> "split_matches_into_blocks",
                 arg |-> <<pcall.arg[1], nproc>>, ok |-> r.ok,
                 blocks |-> r.blocks]
  /\ UNCHANGED <<journal_vars, engine_vars, x, models, pp, reflections,
                 gradients>>

BlocksNext == \E nproc \in 1..MaxNproc : SplitMatchesIntoBlocks(nproc)

SpecBlocks == BlocksInit /\ [][BlocksNext]_vars

---------------------------------------------------------------------------
(* calculate_model_state_uncertainties.  A diagonal block of the           *)
(* variance-covariance matrix is the pair of its offset and its size;      *)
(* returned[k] tells whether calculate_state_uncertainties of model k      *)
(* returned state covariances (TRUE) or None (FALSE).                      *)

\* one pass of a loop body on st = [handed, i]: the block (i, i, n, n) goes
\* to the model; `continue` on None leaves i where it was
hand_model_block(st, ms, k, returned) ==
  LET n == num_free(ms[k])
  IN  [handed |-> Append(st.handed, [model |-> k, offset |-> st.i, n |-> n]),
       i |-> IF returned[k] THEN st.i + n ELSE st.i]

RECURSIVE hand_blocks(_, _, _, _)
hand_blocks(st, ms, block, returned) ==
  IF block = <<>> THEN st
  ELSE hand_blocks(hand_model_block(st, ms, Head(block), returned), ms,
                   Tail(block), returned)

calculate_model_state_uncertainties(ms, p, returned) ==
  LET s0 == [handed |-> <<>>, i |-> 0]
      s1 == hand_blocks(s0, ms, p.detector, returned)
      s2 == hand_blocks(s1, ms, p.beam, returned)
      s3 == hand_blocks(s2, ms, p.xl_orientation, returned)
  IN  hand_blocks(s3, ms, p.xl_unit_cell, returned).handed

\* pp.calculate_model_state_uncertainties(var_cov); arg lists the blocks
\* handed to the models, in order
CalculateModelStateUncertainties(returned) ==
  /\ models' = all_num_free_called(models)
  /\ pcall' = [op |-> "calculate_model_state_uncertainties",
               arg |-> calculate_model_state_uncertainties(models, pp, returned),
               ok |-> TRUE]
  /\ UNCHANGED <<journal_vars, engine_vars, x, pp, predict_vars>>

\* SpecUncertainty: the prediction parameterisation of SpecPred, whose
\* models have parameters fixed and freed and are then handed their blocks
UncertaintyNext ==
  \/ \E k \in 1..Len(models) :
       \E fix \in Arguments(BOOLEAN, {ModelSizes[k]}, MaxParams) :
         CallSetFixed(k, fix)
  \/ \E returned \in [1..Len(models) -> BOOLEAN] :
       CalculateModelStateUncertainties(returned)

SpecUncertainty == PredInit /\ [][UncertaintyNext]_vars

---------------------------------------------------------------------------
(* C1 *)

Last(s) == s[Len(s)]

ButLast(s) == SubSeq(s, 1, Len(s) - 1)

ColumnsUniform == \A k \in DOMAIN history.cols : Len(history.cols[k]) = history.nrows

AddRowEffect ==
  (jcall'.op = "add_row") =>
     /\ history'.nrows = history.nrows + 1
     /\ DOMAIN history'.cols = DOMAIN history.cols
     /\ \A k \in DOMAIN history.cols :
          history'.cols[k] = Append(history.cols[k], None)

DelLastRowEffect ==
  (jcall'.op = "del_last_row") =>
     /\ DOMAIN history'.cols = DOMAIN history.cols
     /\ IF history.nrows = 0
        THEN history' = history
        ELSE /\ history'.nrows = history.nrows - 1
             /\ \A k \in DOMAIN history.cols :
                  history'.cols[k] = ButLast(history.cols[k])

SetLastCellEffect ==
  (jcall'.op = "set_last_cell") =>
     /\ history'.nrows = history.nrows
     /\ DOMAIN history'.cols = DOMAIN history.cols
     /\ \A k \in DOMAIN history.cols :
          IF k = jcall'.key /\ history.nrows > 0
          THEN /\ ButLast(history'.cols[k]) = ButLast(history.cols[k])
               /\ Last(history'.cols[k]) = Some(jcall'.value)
          ELSE history'.cols[k] = history.cols[k]

\* C1: after any sequence of add_column, add_row, del_last_row and
\* set_last_cell calls every column holds exactly get_nrows() entries;
\* add_row appends one None to every column, del_last_row removes the last
\* entry of every column (nothing at zero rows), and set_last_cell changes
\* only the last entry of the named column.
C1_ColumnsShareRowCount ==
  /\ [](ColumnsUniform)
  /\ [][AddRowEffect /\ DelLastRowEffect /\ SetLastCellEffect]_vars

\* a column added after rows exist, rows added and removed, a cell written
C1_Witness ==
  /\ history.nrows = 2
  /\ DOMAIN history.cols = JournalKeys
  /\ Last(history.cols["objective"]) = Some(1)
  /\ history.cols["rmsd"] = <<None, None>>
  /\ jcall.op = "del_last_row"

---------------------------------------------------------------------------
(* C2 *)

\* C2: every return from run() leaves reason_for_termination set: no path
\* through run() of a Gauss-Newton, Levenberg-Marquardt or L-BFGS refinery
\* returns with it still None.
C2_ReasonSetOnReturn == Returned => reason_for_termination # None

---------------------------------------------------------------------------
(* C3 *)

\* C3: when run() returns, for every termination reason, the values held
\* by the PredictionParameterisation (the vector last given to
\* set_param_vals) equal the refinery's x, also after a rejected
\* Levenberg-Marquardt trial that ends the run with MAX_TRIAL_ITERATIONS
\* and after the Gauss-Newton rollback.
C3_ParameterisationHoldsX == Returned => param_vals = x

---------------------------------------------------------------------------
(* C4 *)

RunStartStep == pc = "constructed" /\ engine \in Lstbx /\ pc' # pc

DofTooLowReturn ==
  /\ pc' = "returned"
  /\ reason_for_termination' = <<DOF_TOO_LOW>>
  /\ get_nrows(history') = 0
  /\ x' = x
  /\ n_iterations' = 0
  /\ ~esds'

\* C4 as claimed: whenever the free parameters are at least as many as the
\* matched reflections at the first build-up, the lstbx engines end at once
\* with DOF_TOO_LOW, zero rows, no step and no finalisation.
C4_GuardByMatchCount ==
  [][(RunStartStep /\ nparam >= get_num_matches(target)) => DofTooLowReturn]_vars

\* C4 as amended: the guard compares the free parameters with the residual
\* equations, three per matched reflection.  The lstbx engines end at once
\* with DOF_TOO_LOW (zero rows, no step, no finalisation) exactly when the
\* free parameters are at least three times the matched reflections of the
\* first build-up; otherwise the run enters its loop.
C4_GuardByEquationCount ==
  /\ [][RunStartStep =>
          IF nparam >= RESIDUALS_PER_MATCH * get_num_matches(target)
          THEN DofTooLowReturn
          ELSE pc' = "loop" /\ reason_for_termination' = None]_vars
  /\ [](reason_for_termination = <<DOF_TOO_LOW>> =>
          /\ Returned
          /\ get_nrows(history) = 0
          /\ x = 0 /\ n_iterations = 0 /\ ~esds)

\* three free parameters and one matched reflection
C4_Witness ==
  /\ Returned
  /\ reason_for_termination = <<DOF_TOO_LOW>>
  /\ get_num_matches(target) = 1
  /\ nparam = 3
  /\ get_nrows(history) = 0

---------------------------------------------------------------------------
(* C5 *)

\* C5: with a finite max_iterations the lstbx engines always terminate: at
\* most max_iterations forward steps are taken, rejected
\* Levenberg-Marquardt trials included, and the journal never holds more
\* than max_iterations + 1 rows.
C5_BoundedByMaxIterations ==
  /\ [](engine \in Lstbx =>
          /\ n_iterations <= max_iterations
          /\ get_nrows(history) <= max_iterations + 1)
  /\ (engine \in Lstbx => <>(Returned \/ Raised))

\* a Levenberg-Marquardt run stopped by max_iterations after a rejected
\* trial was counted
C5_Witness ==
  /\ Returned
  /\ engine = "LM"
  /\ reason_for_termination = <<MAX_ITERATIONS>>
  /\ max_iterations = 2
  /\ n_iterations = max_iterations
  /\ get_nrows(history) = 2

---------------------------------------------------------------------------
(* C6 *)

Distinct(col) == \A i, k \in 1..Len(col) : i # k => col[i] # col[k]

NonIncreasing(col) ==
  \A i \in 1..(Len(col) - 1) :
     (col[i] # None /\ col[i + 1] # None) => col[i + 1][1] <= col[i][1]

\* C6: in a Levenberg-Marquardt run the objectives journaled in successive
\* rows never increase, and no row of a rejected trial remains: every
\* vector has at most one row.
C6_ObjectiveNonIncreasing ==
  engine = "LM" =>
     /\ NonIncreasing(Column(history, "objective"))
     /\ Distinct(Column(history, "parameter_vector"))

\* two rows with a decreasing objective, after one accepted and one
\* rejected trial step
C6_Witness ==
  /\ engine = "LM"
  /\ pc = "tests"
  /\ get_nrows(history) = 2
  /\ n_iterations = 2
  /\ Column(history, "objective")[2][1] < Column(history, "objective")[1][1]

---------------------------------------------------------------------------
(* C7 *)

LMTrialStep == engine = "LM" /\ pc = "tests" /\ n_iterations' = n_iterations + 1

\* C7 as claimed: no accepted step (rho > 0) leaves mu larger than before.
C7_AcceptedNeverGrowsMu ==
  [][(LMTrialStep /\ Accepted(rho')) => ~MuLess(mu, mu')]_vars

\* C7 as amended: mu decreases only when a trial step is accepted, and a
\* rejected step that is retried multiplies it by nu >= 2; an accepted step
\* multiplies mu by max(1/3, 1 - (2 rho - 1)^3), which enlarges mu exactly
\* when 0 < rho < 1/2 and never beyond twice its value.
C7_DampingUpdate ==
  [][LMTrialStep =>
       /\ MuLess(mu', mu) => Accepted(rho')
       /\ (~Accepted(rho') /\ pc' = "loop") => MuLess(mu, mu')
       /\ Accepted(rho') =>
            /\ MuLess(mu, mu') <=> 2 * rho'[1] < rho'[2]
            /\ MuLess(mu', MuTimes(mu, 2, 1))
            /\ ~MuLess(MuTimes(mu', 3, 1), mu)]_vars

\* an accepted first step with rho = 1/4 has enlarged mu
C7_Witness ==
  /\ engine = "LM"
  /\ pc = "loop"
  /\ n_iterations = 1
  /\ rho = <<1, 4>>
  /\ x = 1
  /\ MuLess(MuStart, mu)

---------------------------------------------------------------------------
(* C8 *)

\* C8 as claimed: the run ends with MAX_TRIAL_ITERATIONS only once nu has
\* exceeded the cap 8192.
C8_EndsOnlyAboveCap ==
  reason_for_termination = <<MAX_TRIAL_ITERATIONS>> => nu > NU_CAP

\* C8 as amended: a trial step with rho <= 0 restores x and removes the row
\* journaled for that trial; while nu is below 8192 it multiplies mu by nu,
\* doubles nu and retries; a step with rho > 0 resets nu to 2.  nu never
\* exceeds 8192: the run ends with MAX_TRIAL_ITERATIONS on the rejection
\* met with nu equal to 8192, the thirteenth in a row with no acceptance
\* in between, and that rejection leaves mu and nu as they are.
C8_RejectionProtocol ==
  /\ [][LMTrialStep =>
          IF Accepted(rho')
          THEN nu' = 2 /\ x' # x /\ history' = history
          ELSE /\ x' = x
               /\ get_nrows(history') = get_nrows(history) - 1
               /\ \A k \in DOMAIN history.cols :
                    history'.cols[k] = ButLast(history.cols[k])
               /\ IF nu < NU_CAP
                  THEN /\ mu' = MuTimes(mu, nu, 1)
                       /\ nu' = 2 * nu
                       /\ pc' = "loop"
                       /\ reason_for_termination' = None
                  ELSE /\ mu' = mu
                       /\ nu' = nu
                       /\ pc' = "finalise"
                       /\ reason_for_termination' = <<MAX_TRIAL_ITERATIONS>>]_vars
  /\ []((engine = "LM" /\ pc \in {"loop", "tests"}) =>
          /\ nu <= NU_CAP
          /\ nu = Pow2(1 + n_iterations - x))
  /\ [](reason_for_termination = <<MAX_TRIAL_ITERATIONS>> =>
          /\ nu = NU_CAP
          /\ n_iterations - x = Log2(NU_CAP))

\* thirteen rejections in a row from the starting vector
C8_Witness ==
  /\ Returned
  /\ reason_for_termination = <<MAX_TRIAL_ITERATIONS>>
  /\ nu = NU_CAP
  /\ x = 0
  /\ n_iterations = 13
  /\ get_nrows(history) = 0

---------------------------------------------------------------------------
(* C9 *)

---------------------------------------------------------------------------
(* C10 *)

IsPrefix(s, t) == Len(s) <= Len(t) /\ SubSeq(t, 1, Len(s)) = s

---------------------------------------------------------------------------
(* C20 *)

\* C20: every run ends with a populated history: when run() returns with
\* any reason other than DOF_TOO_LOW the journal holds at least one row and
\* the parameter vector of its last row is the vector the refinery ends with.
C20_HistoryDescribesFinalX ==
  (Returned /\ reason_for_termination # <<DOF_TOO_LOW>>) =>
     /\ get_nrows(history) >= 1
     /\ Last(Column(history, "parameter_vector")) = Some(x)

---------------------------------------------------------------------------
(* C11 *)

\* the list a prefix of get_param_names stands for
BlockOf(p, prefix) ==
  IF prefix = "Detector" THEN p.detector
  ELSE IF prefix = "Beam" THEN p.beam
  ELSE p.xl_orientation \o p.xl_unit_cell

\* the free parameters <<k, j>> (model, place in its list) that a name
\* <<prefix, i, x>> of get_param_names designates
Named(ms, p, name) ==
  {kj \in (1..Len(ms)) \X (1..MaxParams) :
     /\ name[2] + 1 \in 1..Len(BlockOf(p, name[1]))
     /\ BlockOf(p, name[1])[name[2] + 1] = kj[1]
     /\ kj[2] \in 1..Len(ms[kj[1]].param)
     /\ ms[kj[1]].param[kj[2]].name = name[3]
     /\ IsFree(ms[kj[1]].param[kj[2]])}

\* the model each entry of a vector given to set_param_esds is handed to
RECURSIVE HandedModels(_)
HandedModels(handed) ==
  IF handed = <<>> THEN <<>>
  ELSE [i \in 1..Len(Head(handed)[2]) |-> Head(handed)[1]]
         \o HandedModels(Tail(handed))

PPSetParamValsReturned ==
  pcall.op = "pp.set_param_vals" /\ pcall.ok

---------------------------------------------------------------------------
(* C12 *)

\* C12: at every point in the life of a PredictionParameterisation, its
\* len() is the sum of num_free() over its models and the length of the
\* parameter vector x of the Refinery, whatever set_fixed and set_param_vals
\* calls were made on the models after construction.
C12_LenIsFreeCount ==
  /\ len_self(pp) = pp_len(models, pp)
  /\ len_self(pp) = Len(x)

---------------------------------------------------------------------------
(* C13 *)

\* the parameters whose fixed flag is false now
FreeNow(m) == {i \in 1..Len(m.param) : ~m.param[i].fixed}

\* C13: for every ModelParameterisation, after any sequence of set_fixed
\* and set_param_vals calls, get_param_vals(only_free=False) has
\* num_total() entries, get_param_vals(only_free=True) has num_free()
\* entries, and num_free() is the number of parameters whose fixed flag is
\* false now: the cached count is never stale.
C13_CountsAgree ==
  \A k \in 1..Len(models) :
    /\ Len(get_param_vals(models[k], FALSE)) = num_total(models[k])
    /\ Len(get_param_vals(models[k], TRUE)) = num_free(models[k])
    /\ num_free(models[k]) = Cardinality(FreeNow(models[k]))

\* a count was cached for a mask that fixes two of three parameters, set
\* after construction
C13_Witness ==
  /\ pcall.op = "set_param_vals"
  /\ pcall.ok
  /\ Len(pcall.arg) = 1
  /\ get_fixed(models[1]) = <<TRUE, FALSE, TRUE>>
  /\ models[1].num_free = Some(1)

---------------------------------------------------------------------------
(* C14 *)

\* the value of every parameter, free or fixed, of every model
AllValues(ms) == [k \in 1..Len(ms) |-> get_param_vals(ms[k], FALSE)]

\* C14: set_param_vals(get_param_vals()) is idempotent: called on any
\* ModelParameterisation and on the PredictionParameterisation, in any
\* state they can be in, it leaves the value of every parameter (free and
\* fixed) as it was, and a second such call leaves the objects as the first
\* one left them.
C14_SetGetIdempotent ==
  /\ \A k \in 1..Len(models) :
       LET once  == set_param_vals(models[k], get_param_vals(models[k], TRUE))
           twice == set_param_vals(once.m, get_param_vals(once.m, TRUE))
       IN  /\ once.ok
           /\ get_param_vals(once.m, FALSE) = get_param_vals(models[k], FALSE)
           /\ twice.ok
           /\ twice.m = once.m
  /\ LET once  == pp_set_param_vals(models, pp, pp_get_param_vals(models, pp))
         twice == pp_set_param_vals(once.models, pp,
                                    pp_get_param_vals(once.models, pp))
     IN  /\ AllValues(once.models) = AllValues(models)
         /\ twice.ok = once.ok
         /\ twice.models = once.models
  /\ pcall.op = "pp.set_param_vals(pp.get_param_vals())" =>
       /\ pcall.arg = pp_get_param_vals(models, pp)
       /\ pcall.ok =>
            pp_set_param_vals(models, pp, pcall.arg) = [models |-> models, ok |-> TRUE]

\* pp.set_param_vals(pp.get_param_vals()) has returned where the two
\* detector models hold different values and the unit cell parameter is fixed
C14_Witness ==
  /\ pcall = [op |-> "pp.set_param_vals(pp.get_param_vals())",
              arg |-> <<1, 0>>, ok |-> TRUE]
  /\ get_fixed(models[3]) = <<TRUE>>
  /\ AllValues(models) = << <<1>>, <<0>>, <<0>> >>

---------------------------------------------------------------------------
(* C15 *)

\* what a failed call must leave alone: every parameter's value and esd and
\* every composed model state
Frame(ms) ==
  [k \in 1..Len(ms) |->
     [values |-> get_param_vals(ms[k], FALSE),
      esds   |-> [i \in 1..Len(ms[k].param) |-> ms[k].param[i].esd],
      state  |-> ms[k].state]]

\* the models with the esd es[k] written to every parameter of model k
WithEsds(ms, es) ==
  [k \in 1..Len(ms) |->
     [ms[k] EXCEPT !.param = [i \in 1..Len(ms[k].param) |->
                                set_esd(ms[k].param[i], es[k])]]]

\* the vectors one entry shorter and one entry longer than n
WrongLength(n) ==
  UNION {[1..l -> ParamValues] : l \in {j \in {n - 1, n + 1} : j >= 0}}

\* C15: set_param_vals fails when its input is not as long as the number of
\* free parameters (num_free() of a ModelParameterisation, len(self) of the
\* PredictionParameterisation), and the call so refused changes no parameter
\* value, no esd and no composed model state, whatever esds the parameters
\* hold.
C15_WrongLengthChangesNothing ==
  /\ \A es \in [1..Len(models) -> EsdValues] :
       \A ms \in {WithEsds(models, es)} :
         \A before \in {Frame(ms)} :
           /\ \A k \in 1..Len(ms) :
                \A vals \in WrongLength(num_free(ms[k])) :
                  \A r \in {set_param_vals(ms[k], vals)} :
                    ~r.ok /\ Frame(<<r.m>>) = <<before[k]>>
           /\ \A vals \in WrongLength(len_self(pp)) :
                \A r \in {pp_set_param_vals(ms, pp, vals)} :
                  ~r.ok /\ Frame(r.models) = before
  /\ (pcall.op = "pp.set_param_vals" /\ Len(pcall.arg) # len_self(pp)) =>
       ~pcall.ok

\* the PredictionParameterisation has refused a vector one entry longer
\* than len(self)
C15_Witness ==
  /\ pcall.op = "pp.set_param_vals"
  /\ ~pcall.ok
  /\ len_self(pp) = 2
  /\ Len(pcall.arg) = 3
  /\ AllValues(models) = << <<1>>, <<0>>, <<1>> >>

---------------------------------------------------------------------------
(* C16 *)

SetParamValsReturned ==
  /\ pcall'.op \in {"set_param_vals", "set_param_vals(get_param_vals())"}
  /\ pcall'.ok

\* C16: a Parameter's esd is reset to None by every write to its value and
\* stays None until an esd is written again: a returned
\* ModelParameterisation.set_param_vals leaves every free parameter with its
\* new value and esd None and every fixed parameter with the value and the
\* esd it had; an esd write changes the esd of one parameter only; no other
\* call changes a value or an esd.
C16_EsdResetByValueWrite ==
  [][\A k \in 1..Len(models) :
       \A i \in 1..Len(models[k].param) :
         \A old \in {models[k].param[i]}, new \in {models'[k].param[i]} :
           /\ SetParamValsReturned =>
                IF old.fixed
                THEN new = old
                ELSE /\ new.esd = None
                     /\ new.value =
                          pcall'.arg[Cardinality({j \in FreeNow(models[k]) : j <= i})]
                     /\ new.name = old.name
                     /\ ~new.fixed
           /\ (pcall'.op = "esd") =>
                (new # old => (pcall'.arg[1] = i /\ new = set_esd(old, pcall'.arg[2])))
           /\ (~SetParamValsReturned /\ pcall'.op # "esd") =>
                (new.value = old.value /\ new.esd = old.esd)]_vars

\* set_param_vals has returned on a model whose fixed first parameter holds
\* an esd, with two free parameters
C16_Witness ==
  /\ pcall.op = "set_param_vals"
  /\ pcall.ok
  /\ pcall.arg = <<1, 0>>
  /\ get_fixed(models[1]) = <<TRUE, FALSE, FALSE>>
  /\ models[1].param[1].esd = Some(1)
  /\ models[1].param[2].esd = None
  /\ models[1].param[3].esd = None

---------------------------------------------------------------------------
(* C17 *)

\* the model that owns each entry of the free-parameter vector, in the
\* order of get_param_vals
RECURSIVE block_owners(_, _)
block_owners(ms, block) ==
  IF block = <<>> THEN <<>>
  ELSE [j \in 1..num_free(ms[Head(block)]) |-> Head(block)]
         \o block_owners(ms, Tail(block))

Owners(ms, p) ==
  block_owners(ms, p.detector) \o block_owners(ms, p.beam)
    \o block_owners(ms, p.xl_orientation) \o block_owners(ms, p.xl_unit_cell)

GradientsReturned == gradients # None /\ ~gradients[1].raised

\* C17: in what get_gradients returns, the vectors of a free parameter of
\* one model parameterisation are non-zero only at reflections whose
\* experiment id is among that parameterisation's get_experiment_ids(): at
\* every reflection of another experiment dX/dp, dY/dp and the third
\* derivative of that parameter are exactly zero; and each of the three
\* lists holds one vector per free parameter, as long as the reflection table.
C17_ZeroOutsideOwnExperiments ==
  GradientsReturned =>
    LET g == gradients[1]
        owners == Owners(models, pp)
    IN  /\ Len(owners) = len_self(pp)
        /\ \A vecs \in {g.dX, g.dY, g.dZ} :
             /\ Len(vecs) = len_self(pp)
             /\ \A q \in 1..Len(vecs) :
                  /\ Len(vecs[q]) = Len(reflections)
                  /\ \A i \in 1..Len(reflections) :
                       reflections[i].id \notin models[owners[q]].exp_ids
                         => vecs[q][i] = ZERO

\* gradients were returned for a reflection of each experiment, both
\* detector models and a beam model of the second experiment being free
C17_Witness ==
  /\ GradientsReturned
  /\ Len(reflections) = 2
  /\ reflections[1].id = 0
  /\ reflections[2].id = 1
  /\ Owners(models, pp) = <<1, 2, 3>>
  /\ models[3].exp_ids = {1}
  /\ gradients[1].dX = <<<<FINITE, ZERO>>, <<ZERO, FINITE>>, <<ZERO, FINITE>>>>
  /\ gradients[1].dZ = <<<<ZERO, ZERO>>, <<ZERO, ZERO>>, <<ZERO, FINITE>>>>

---------------------------------------------------------------------------
(* C18 *)

\* C18: whenever the angle-derivative denominator of a reflection is near
\* zero, get_gradients aborts with an error and diagnostics and returns no
\* gradients: it never returns vectors, let alone one in which that
\* reflection's derivative was computed from the degenerate denominator.
C18_NearZeroDenominatorAborts ==
  (gradients # None /\ SmallReflections(reflections) # {}) =>
     /\ gradients[1].raised
     /\ gradients[1].diagnostics # None
     /\ gradients[1].dX = <<>>
     /\ gradients[1].dY = <<>>
     /\ gradients[1].dZ = <<>>

---------------------------------------------------------------------------
(* C19 *)

Abs(a) == IF a < 0 THEN 0 - a ELSE a

\* C19: for every observed and calculated rotation angle, the phi residual
\* Target._predict_core stores is congruent to phi_calc - phi_obs modulo
\* 2 pi and at most pi in magnitude, and the stored calculated angle is
\* phi_obs plus that residual (an observation just after zero and a
\* prediction just before a full turn give a small negative residual).
C19_PhiResidualWrapped ==
  pcall.op = "_predict_core" =>
    \A i \in 1..Len(reflections) :
      LET row == reflections[i]
          phi_calc == pcall.arg[i]
      IN  /\ row.phi_resid # None
          /\ (row.phi_resid[1] - (phi_calc - row.phi_obs)) % TWO_PI = 0
          /\ Abs(row.phi_resid[1]) <= HalfTurn
          /\ row.phi_cal = row.phi_obs + row.phi_resid[1]

\* the observation one unit after zero, the prediction one unit before a
\* full turn: the residual is minus two units
C19_Witness ==
  /\ pcall = [op |-> "_predict_core", arg |-> <<TWO_PI - 1>>, ok |-> TRUE]
  /\ reflections = <<[phi_obs |-> 1, phi_cal |-> 0 - 1, phi_resid |-> Some(0 - 2)]>>

---------------------------------------------------------------------------
(* C21 *)

AddColumnCalled == jcall'.op = "add_column" /\ jcall' # jcall

\* C21: a column can be added to a Journal only while its row count is
\* zero: add_column on a journal that already has rows does not take
\* effect, so no journaled row is altered or erased by add_column.
C21_AddColumnOnlyAtZeroRows ==
  [][AddColumnCalled /\ history.nrows > 0 => history' = history]_vars

---------------------------------------------------------------------------
(* C23 *)

PredictOrder ==
  <<"get_obs", "reset_accepted_reflections", "reflection_predictor.predict",
    "residuals", "set_flags", "update_matches">>

PredictReturned == pcall.op = "predict" /\ pcall.ok

IsVisibleAtX(row) == x \in row.visible

---------------------------------------------------------------------------
(* C24 *)

StepCells == <<"parameter_vector", "num_reflections", "rmsd", "objective">>

\* row i of the journal, restricted to the four step quantities
StepRow(j, i) == [k \in 1..Len(StepCells) |-> j.cols[StepCells[k]][i]]

RowWritten ==
  /\ get_nrows(history') = get_nrows(history) + 1
  /\ pc' # "raised"

\* C24: each step is prepared at the current x (set_param_vals(x), then
\* predict()) before it is journaled, and the termination tests come after
\* update_journal: the row written for a step holds the parameter vector x,
\* and the match count, RMSDs and objective of the prediction made at that
\* x; rows written earlier are never altered; and whenever the termination
\* tests run the last row of the journal is the row of the current x.
C24_RowsBelongToOneX ==
  /\ [][RowWritten =>
          /\ param_vals' = x'
          /\ StepRow(history', get_nrows(history')) =
               <<Some(x'), Some(get_num_matches(target')), Some(rmsds(target')),
                 f_'>>
          /\ f_' = Some(IF engine = "LBFGS" THEN functional(target')
                        ELSE objective(target'))]_vars
  /\ [][\A i \in 1..get_nrows(history) :
          i <= get_nrows(history') /\ pc' # "raised" =>
            StepRow(history', i) = StepRow(history, i)]_vars
  /\ [](pc \in {"tests", "stopping"} =>
          /\ get_nrows(history) >= 1
          /\ param_vals = x
          /\ StepRow(history, get_nrows(history)) =
               <<Some(x), Some(get_num_matches(target)), Some(rmsds(target)), f_>>)

\* a Levenberg-Marquardt run whose second row was journaled again after a
\* rejected trial step
C24_Witness ==
  /\ engine = "LM"
  /\ pc = "tests"
  /\ get_nrows(history) = 2
  /\ rho # None
  /\ ~Accepted(rho)
  /\ x = 1
  /\ Column(history, "parameter_vector") = <<Some(0), Some(1)>>

---------------------------------------------------------------------------
(* C25 *)

ObjectiveIncreased ==
  reason_for_termination # None /\ reason_for_termination[1] = OBJECTIVE_INCREASE

\* the Gauss-Newton tests have just ended the loop on the objective test
ObjectiveIncreaseDetected == ~ObjectiveIncreased /\ ObjectiveIncreased'

\* C25: when Gauss-Newton finds the objective of the last row above that
\* of the row before it while the match count did not grow, it sets x back
\* to the vector of the row before the last, clears old_x, prepares the
\* target at that vector again, records OBJECTIVE_INCREASE with the
\* suffix '. Parameters set back one step', and leaves the loop; from then
\* on x is not moved again and the run returns.
C25_OneStepRollback ==
  /\ [][ObjectiveIncreaseDetected =>
          LET n == get_nrows(history)
          IN  /\ engine = "GN"
              /\ n >= 2
              /\ Column(history, "objective")[n][1] >
                   Column(history, "objective")[n - 1][1]
              /\ Column(history, "num_reflections")[n][1] <=
                   Column(history, "num_reflections")[n - 1][1]
              /\ old_x # None
              /\ Some(x') = Column(history, "parameter_vector")[n - 1]
              /\ x' # x
              /\ old_x' = None
              /\ param_vals' = x'
              /\ get_num_matches(target') =
                   Column(history, "num_reflections")[n - 1][1]
              /\ reason_for_termination' = <<OBJECTIVE_INCREASE, SET_BACK>>
              /\ history' = history
              /\ pc' = "finalise"]_vars
  /\ [][ObjectiveIncreased =>
          /\ x' = x
          /\ old_x' = None
          /\ reason_for_termination' = reason_for_termination
          /\ pc' = "returned"]_vars

\* three rows journaled, the third with a larger objective: the run ends
\* at the vector of the second
C25_Witness ==
  /\ Returned
  /\ reason_for_termination = <<OBJECTIVE_INCREASE, SET_BACK>>
  /\ get_nrows(history) = 3
  /\ x = 1
  /\ param_vals = 1
  /\ Column(history, "parameter_vector")[3] = Some(2)

---------------------------------------------------------------------------
(* C26 *)

\* the change from prev to last is below 1e-4 of prev, or prev is not
\* positive
DimensionConverged(last, prev) ==
  prev > 0 => (last - prev) * 10000 < prev /\ (prev - last) * 10000 < prev

LastTwoRowsConverged ==
  /\ get_nrows(history) >= 2
  /\ \A i \in 1..3 :
       DimensionConverged(
         Column(history, "rmsd")[get_nrows(history)][1][i],
         Column(history, "rmsd")[get_nrows(history) - 1][1][i])

RmsdConverged ==
  reason_for_termination # None /\ reason_for_termination[1] = RMSD_CONVERGED

\* C26: with a row journaled for the current step, test_rmsd_convergence is
\* false while fewer than two rows are journaled and otherwise true
\* exactly when in each of the three dimensions the change between the
\* RMSDs of the last two rows is below 1e-4 of the previous one (a
\* previous RMSD that is not positive counts as converged); and a run ends
\* with RMSD_CONVERGED only when that holds of the last two journaled rows.
C26_RmsdConvergenceTest ==
  /\ pc = "tests" => (test_rmsd_convergence(history) <=> LastTwoRowsConverged)
  /\ pc = "tests" /\ get_nrows(history) < 2 => ~test_rmsd_convergence(history)
  /\ RmsdConverged => LastTwoRowsConverged

\* a run ended by the test on a third row whose first RMSD rose from zero
C26_Witness ==
  /\ Returned
  /\ RmsdConverged
  /\ get_nrows(history) = 3
  /\ Column(history, "rmsd")[2] = Some(<<0, 10000, 10000>>)
  /\ Column(history, "rmsd")[3] = Some(<<10003, 10000, 10000>>)

---------------------------------------------------------------------------
(* C27 *)

SplitCalled == pcall.op = "split_matches_into_blocks"

RECURSIVE Concatenation(_)
Concatenation(blocks) ==
  IF blocks = <<>> THEN <<>>
  ELSE Concatenation(ButLast(blocks)) \o Last(blocks)

\* C27: for every number of matches N >= 1, every nproc >= 1 and every
\* jacobian_max_nref setting (none included) split_matches_into_blocks
\* returns, and the blocks it returns, concatenated in order, are exactly
\* the matches.
C27_BlocksPartitionMatches ==
  SplitCalled => pcall.ok /\ Concatenation(pcall.blocks) = matches[1]

---------------------------------------------------------------------------
(* C28 *)

LargestBlock(blocks) ==
  CHOOSE n \in 0..MaxMatches :
    /\ \A b \in 1..Len(blocks) : Len(blocks[b]) <= n
    /\ n = 0 \/ \E b \in 1..Len(blocks) : Len(blocks[b]) = n

\* C28: when jacobian_max_nref is set, the blocks returned are such that
\* nproc times the size of the largest block does not exceed
\* jacobian_max_nref.
C28_ConcurrentReflectionsCapped ==
  (SplitCalled /\ pcall.ok /\ pcall.arg[1] # 0) =>
     pcall.arg[2] * LargestBlock(pcall.blocks) <= pcall.arg[1]

---------------------------------------------------------------------------
(* C29 *)

RECURSIVE SumOfSizes(_, _)
SumOfSizes(handed, j) ==
  IF j = 0 THEN 0 ELSE SumOfSizes(handed, j - 1) + handed[j].n

\* C29: calculate_model_state_uncertainties hands each model the diagonal
\* block of its own parameters: the offset of the block of a model is the
\* sum of num_free() of the models before it in detector, beam,
\* orientation, cell order, whether or not those returned state
\* uncertainties.
C29_BlockOffsetsFollowNumFree ==
  pcall.op = "calculate_model_state_uncertainties" =>
    \A j \in 1..Len(pcall.arg) :
      pcall.arg[j].offset = SumOfSizes(pcall.arg, j - 1)

---------------------------------------------------------------------------
(* C30 *)

\* C30: in what XYPhiPredictionParameterisation.get_gradients returns,
\* every reflection of an experiment of a detector parameterisation holds
\* that parameterisation's dX/dp and dY/dp, computed for the panel it lies
\* on, whatever the number of panels of the last experiment's detector;
\* and the free parameters are as many as len(self), each belonging to one
\* sub-model.
C30_DetectorDerivativesOnEveryPanel ==
  (GradientsReturned /\ pp.cls = "XYPhiPredictionParameterisation") =>
    LET g == gradients[1]
        owners == Owners(models, pp)
    IN  /\ Len(owners) = len_self(pp)
        /\ \A q \in 1..Len(block_owners(models, pp.detector)) :
             \A i \in 1..Len(reflections) :
               reflections[i].id \in models[owners[q]].exp_ids =>
                 g.dX[q][i] = FINITE /\ g.dY[q][i] = FINITE

===========================================================================
